---- MODULE Spec2Model ----
(***************************************************************************)
(* wa_color: the polling loop of App.run (wa_color/main.py), the change    *)
(* detectors Plan / Cancel (wa_color/net/scrap.py), the page caches of     *)
(* DownloadPlan / DownloadCancel (wa_color/net/private/_download.py), the  *)
(* document store FileManager (wa_color/disk/file.py) and the message      *)
(* formatters of Mail (wa_color/communication/mail.py).                    *)
(*                                                                         *)
(* Representation.  A Python dict is a TLA+ function; dict() and None are  *)
(* the function with the empty domain.  A timestamp string                 *)
(* "YYYY-mm-dd HH:MM:SS" is the number of the wall-clock second it names;  *)
(* a cancellation date key is a number ordered like the date string.       *)
(***************************************************************************)
EXTENDS Integers, Sequences, FiniteSets, TLC

(* ------------------------------ bounds -------------------------------- *)

\* cycles of App.run explored
MaxCycles == 3
\* last wall-clock second explored
MaxClock == 2
\* failed downloads, extractions and writes explored in one run
MaxFaults == 1
\* slots of the week tables handed to Mail.add_plan_table
MaxSlots == 2
\* date keys of the cancellation maps handed to Mail.send_cancel_email
MaxDates == 2

(* -------------------------- program constants ------------------------- *)

\* range(7): slots of the placeholder week
TemplateSlots == 7
\* range(20): entries of the placeholder cancellation map
TemplateDates == 20
\* "1970-01-01 00:00": the placeholder timestamp
Epoch == 0

EmptyDict == [k \in {} |-> <<>>]
None == EmptyDict

\* dict.update({key: value})
DictUpdate(d, key, value) ==
    [k \in DOMAIN d \cup {key} |-> IF k = key THEN value ELSE d[k]]

Days == {"time", "monday", "tuesday", "wednesday", "thursday", "friday"}

(* ---------------------- placeholders (_templates) --------------------- *)

\* A cell's text is the sequence of its pieces; the piece "\n" is a line break.
temp_day == [i \in 1..TemplateSlots |-> <<"null">>]

base_week ==
    [time |-> << <<"08:00">>, <<"09:45">>, <<"11:30">>, <<"13:15">>, <<"15:00">>,
                 <<"16:45">>, <<"18:30">> >>,
     monday |-> temp_day, tuesday |-> temp_day, wednesday |-> temp_day,
     thursday |-> temp_day, friday |-> temp_day]

TemplatePlan ==
    [current |-> base_week,
     previous |-> base_week,
     metadata |-> [current_iteration |-> 0,
                   current_color |-> "null",
                   current_link |-> "null",
                   previous_colors |-> EmptyDict,
                   previous_links |-> EmptyDict,
                   last_change_color |-> Epoch,
                   last_change_table |-> Epoch,
                   last_change_link |-> Epoch]]

temp_dates == [i \in 1..TemplateDates |-> "null"]

TemplateCancel ==
    [current |-> temp_dates,
     previous |-> temp_dates,
     metadata |-> [current_iteration |-> 0, last_change |-> Epoch]]

(* ------------------- what the two sites can serve --------------------- *)

\* background colors: six characters after "background-color:#"
Colors == {"AABBCC", "CD61B8", "00FF00"}

\* resolved links of the group's sub page (base + "/" + href)
Links == {"https://wa/groups/o1.html", "https://wa/groups/o2.html"}

Week(t, mo, tu) ==
    [time |-> t, monday |-> mo, tuesday |-> tu,
     wednesday |-> [i \in 1..Len(t) |-> <<>>],
     thursday |-> [i \in 1..Len(t) |-> <<>>],
     friday |-> [i \in 1..Len(t) |-> <<>>]]

\* timetables of the sub page
Tables ==
    {Week(<< <<"08:00">> >>, << <<"PHONETICS">> >>, << <<>> >>),
     Week(<< <<"08:00">>, <<"09:45">> >>, << <<"PHONETICS">>, <<>> >>,
          << <<>>, <<"GRAMMAR", "\n", "room 12">> >>)}

\* cancellation lists of the cancellations page
CancelMaps ==
    {[d \in {101} |-> "A cancels"],
     [d \in {101, 102} |-> IF d = 101 THEN "A cancels" ELSE "B cancels"]}

Sites == [color : Colors, link : Links, table : Tables, cancellations : CancelMaps]

BaseSite == CHOOSE s \in Sites : s.color = "AABBCC" /\ Len(s.table.time) = 1
                                  /\ s.link = "https://wa/groups/o1.html"
                                  /\ DOMAIN s.cancellations = {101}

\* the facts in which a site differs from BaseSite
Differs(s) ==
    {f \in {"color", "link", "table", "cancellations"} : s[f] # BaseSite[f]}

\* The contents the sites take during one run: nothing changes, or one fact
\* varies over all its values while the others stay, or all four facts change
\* together.
Worlds ==
    {{BaseSite}}
    \cup {{s \in Sites : Differs(s) \subseteq {f}} : f \in {"color", "link", "table", "cancellations"}}
    \cup {{s \in Sites : s = BaseSite \/ (Differs(s) = {"color", "link", "table", "cancellations"}
                                          /\ s.color = "CD61B8")}}

(* ------------------------------- state -------------------------------- *)

VARIABLES
    pc,          \* position of App.run
    num,         \* App.run's loop counter
    config,      \* RUNTIME values read at construction: send_email, loop_time_in_seconds
    clock,       \* the wall-clock second _get_time() reads
    world,       \* the contents the two web sites take during this run
    site,        \* what the two web sites serve during the current cycle
    dPlan,       \* DownloadPlan's cached attributes
    dCancel,     \* DownloadCancel's cached attributes
    plan,        \* FileManager._plan, the cached plan document
    plan_disk,   \* work/plan.json
    cancel,      \* FileManager._cancel, the cached cancellations document
    cancel_disk, \* work/cancel.json
    faults,      \* downloads, extractions and writes that have failed so far
    ret,         \* what each check of the current cycle returned
    mail,        \* Mail.plan_to_send and the messages handed to send_mail_api
    obs          \* history of the run, read by the properties only

vars == <<pc, num, config, clock, world, site, dPlan, dCancel, plan, plan_disk,
          cancel, cancel_disk, faults, ret, mail, obs>>

(* ------------------- Json / LoadByType / FileManager ------------------ *)

\* how a write of a document to disk can end
WriteOutcomes == {"ok", "open_fails", "dump_fails"}

\* a store that acknowledges the write and keeps the old document
Json_save_dict_dropped(disk, value, w) == disk

\* Json.save_dict: open(mode="w") truncates the file before dump() writes it
Json_save_dict(disk, value, w) ==
    CASE w = "ok" -> value
      [] w = "open_fails" -> disk
      [] OTHER -> EmptyDict

\* variant of LoadByType that never keeps the stored document
LoadByType_always_default(disk, template, w) ==
    [doc |-> template, disk |-> Json_save_dict(disk, template, w)]

\* LoadByType.plan / LoadByType.cancel: the stored document when its keys are
\* the placeholder's keys, else the placeholder, written back (a failed write
\* is ignored)
LoadByType(disk, template, w) ==
    IF DOMAIN disk = DOMAIN template
    THEN [doc |-> disk, disk |-> disk]
    ELSE [doc |-> template, disk |-> Json_save_dict(disk, template, w)]

\* variant of the getter that reads the file on every access
FileGet_uncached(cache, disk, template, w) == LoadByType(disk, template, w)

\* FileManager.plan / FileManager.cancel (getter): the cache unless it is empty
FileGet(cache, disk, template, w) ==
    IF cache = EmptyDict
    THEN LoadByType(disk, template, w)
    ELSE [doc |-> cache, disk |-> disk]

\* the ways the write inside LoadByType can end, when it writes at all
LoadWrites(cache, disk, template) ==
    IF cache = EmptyDict /\ DOMAIN disk # DOMAIN template THEN WriteOutcomes ELSE {"ok"}

\* the ways the write of a changed document can end, when there is a change
SaveWrites(is_changed) == IF is_changed THEN WriteOutcomes ELSE {"ok"}

(* ---------------------------- DownloadPlan ---------------------------- *)

\* how one access to a DownloadPlan property can end
PlanOutcomes == {"ok", "main_fails", "href_fails", "sub_fails", "parse_fails"}

\* requests counts the s.get calls made for each page since the caches
\* were last empty
DPlanInit ==
    [main_page |-> None, sub_link |-> "", sub_page |-> None,
     main_color |-> "", sub_table |-> EmptyDict,
     requests |-> [main |-> 0, sub |-> 0]]

\* DownloadPlan._download_pages
download_pages(d, s, o) ==
    IF d.main_page # None /\ d.sub_page # None
    THEN [d |-> d, raised |-> FALSE]
    ELSE IF o = "main_fails"
    THEN [d |-> [d EXCEPT !.requests.main = @ + 1], raised |-> TRUE]
    ELSE LET d1 == [d EXCEPT !.main_page = [color |-> s.color, link |-> s.link],
                             !.requests.main = @ + 1]
             d2 == [d1 EXCEPT !.sub_link = s.link, !.requests.sub = @ + 1]
             d3 == [d2 EXCEPT !.sub_page = [table |-> s.table]]
         IN  IF o = "href_fails" THEN [d |-> d1, raised |-> TRUE]
             ELSE IF o = "sub_fails" THEN [d |-> d2, raised |-> TRUE]
             ELSE [d |-> d3, raised |-> FALSE]

\* DownloadPlan.color
DPlan_color(d, s, o) ==
    IF d.main_color # ""
    THEN [d |-> d, raised |-> FALSE, value |-> d.main_color]
    ELSE LET dl == IF d.main_page = None THEN download_pages(d, s, o)
                   ELSE [d |-> d, raised |-> FALSE]
         IN  IF dl.raised \/ o = "parse_fails"
             THEN [d |-> dl.d, raised |-> TRUE, value |-> ""]
             ELSE [d |-> [dl.d EXCEPT !.main_color = dl.d.main_page.color],
                   raised |-> FALSE, value |-> dl.d.main_page.color]

\* DownloadPlan.link
DPlan_link(d, s, o) ==
    IF d.sub_link # ""
    THEN [d |-> d, raised |-> FALSE, value |-> d.sub_link]
    ELSE LET dl == IF d.main_page = None THEN download_pages(d, s, o)
                   ELSE [d |-> d, raised |-> FALSE]
         IN  [d |-> dl.d, raised |-> dl.raised, value |-> dl.d.sub_link]

\* variant that downloads the pages again for the table
DPlan_table_downloads_again(d, s, o) ==
    IF d.sub_table # EmptyDict
    THEN [d |-> d, raised |-> FALSE, value |-> d.sub_table]
    ELSE LET dl == download_pages([d EXCEPT !.sub_page = None], s, o)
         IN  IF dl.raised \/ o = "parse_fails"
             THEN [d |-> dl.d, raised |-> TRUE, value |-> EmptyDict]
             ELSE [d |-> [dl.d EXCEPT !.sub_table = dl.d.sub_page.table],
                   raised |-> FALSE, value |-> dl.d.sub_page.table]

\* DownloadPlan.table
DPlan_table(d, s, o) ==
    IF d.sub_table # EmptyDict
    THEN [d |-> d, raised |-> FALSE, value |-> d.sub_table]
    ELSE LET dl == IF d.sub_page = None THEN download_pages(d, s, o)
                   ELSE [d |-> d, raised |-> FALSE]
         IN  IF dl.raised \/ o = "parse_fails"
             THEN [d |-> dl.d, raised |-> TRUE, value |-> EmptyDict]
             ELSE [d |-> [dl.d EXCEPT !.sub_table = dl.d.sub_page.table],
                   raised |-> FALSE, value |-> dl.d.sub_page.table]

\* the ways an access can end, given what is cached: a cached value is
\* returned as it is, cached pages are not downloaded again
ColorOutcomes(d) ==
    IF d.main_color # "" THEN {"ok"}
    ELSE IF d.main_page # None THEN {"ok", "parse_fails"}
    ELSE PlanOutcomes

LinkOutcomes(d) ==
    IF d.sub_link # "" \/ d.main_page # None THEN {"ok"}
    ELSE PlanOutcomes \ {"parse_fails"}

TableOutcomes(d) ==
    IF d.sub_table # EmptyDict THEN {"ok"}
    ELSE IF d.sub_page # None THEN {"ok", "parse_fails"}
    ELSE PlanOutcomes

(* --------------------------- DownloadCancel --------------------------- *)

\* how one access to DownloadCancel.cancellations can end
CancelOutcomes == {"ok", "page_fails", "parse_fails"}

DCancelInit == [page |-> None, cancellations |-> EmptyDict]

\* DownloadCancel.cancellations
DCancel_cancellations(d, s, o) ==
    IF d.cancellations # EmptyDict
    THEN [d |-> d, raised |-> FALSE, value |-> d.cancellations]
    ELSE IF d.page = None /\ o = "page_fails"
    THEN [d |-> d, raised |-> TRUE, value |-> EmptyDict]
    ELSE LET d1 == IF d.page = None
                   THEN [d EXCEPT !.page = [items |-> s.cancellations]]
                   ELSE d
         IN  IF o = "parse_fails"
             THEN [d |-> d1, raised |-> TRUE, value |-> EmptyDict]
             ELSE [d |-> [d1 EXCEPT !.cancellations = d1.page.items],
                   raised |-> FALSE, value |-> d1.page.items]

CancellationsOutcomes(d) ==
    IF d.cancellations # EmptyDict THEN {"ok"}
    ELSE IF d.page # None THEN {"ok", "parse_fails"}
    ELSE CancelOutcomes

(* ------------------------- Plan / Cancel (scrap) ---------------------- *)

\* _get_time: the wall-clock second, as strftime("%G-%m-%d %T") prints it
get_time == clock

\* variant that counts a color change only when it is recorded in the history
color_changed_counts_recorded(temp, new_color, current_time) ==
    LET old_color == temp.metadata.current_color
    IN  [temp EXCEPT
            !.metadata.last_change_color = current_time,
            !.metadata.current_color = new_color,
            !.metadata.current_iteration = IF old_color # "null" THEN @ + 1 ELSE @,
            !.metadata.previous_colors =
                IF old_color # "null" THEN DictUpdate(@, current_time, old_color) ELSE @]

\* variant that does not count color changes
color_changed_uncounted(temp, new_color, current_time) ==
    LET old_color == temp.metadata.current_color
    IN  [temp EXCEPT
            !.metadata.last_change_color = current_time,
            !.metadata.current_color = new_color,
            !.metadata.previous_colors =
                IF old_color # "null" THEN DictUpdate(@, current_time, old_color) ELSE @]

\* variant that records the old color whatever it is
color_changed_records_sentinel(temp, new_color, current_time) ==
    LET old_color == temp.metadata.current_color
    IN  [temp EXCEPT
            !.metadata.last_change_color = current_time,
            !.metadata.current_color = new_color,
            !.metadata.current_iteration = @ + 1,
            !.metadata.previous_colors = DictUpdate(@, current_time, old_color)]

\* Plan.is_color_changed, lines 59-66: the document after a detected change
color_changed(temp, new_color, current_time) ==
    LET old_color == temp.metadata.current_color
    IN  [temp EXCEPT
            !.metadata.last_change_color = current_time,
            !.metadata.current_color = new_color,
            !.metadata.current_iteration = @ + 1,
            !.metadata.previous_colors =
                IF old_color # "null" THEN DictUpdate(@, current_time, old_color) ELSE @]

\* variant that counts link changes too
link_changed_counted(temp, new_link, current_time) ==
    LET old_link == temp.metadata.current_link
    IN  [temp EXCEPT
            !.metadata.current_link = new_link,
            !.metadata.last_change_link = current_time,
            !.metadata.current_iteration = @ + 1,
            !.metadata.previous_links =
                IF old_link # "null" THEN DictUpdate(@, current_time, old_link) ELSE @]

\* Plan.is_link_changed, lines 91-97: the document after a detected change
link_changed(temp, new_link, current_time) ==
    LET old_link == temp.metadata.current_link
    IN  [temp EXCEPT
            !.metadata.current_link = new_link,
            !.metadata.last_change_link = current_time,
            !.metadata.previous_links =
                IF old_link # "null" THEN DictUpdate(@, current_time, old_link) ELSE @]

\* variant that copies current to previous after current was replaced
table_changed_copies_late(temp, new_table, current_time) ==
    [temp EXCEPT
        !.current = new_table,
        !.previous = new_table,
        !.metadata.last_change_table = current_time]

\* Plan.is_table_changed, lines 123-126: the document after a detected change
table_changed(temp, new_table, current_time) ==
    LET old_table == temp.current
    IN  [temp EXCEPT
            !.current = new_table,
            !.previous = old_table,
            !.metadata.last_change_table = current_time]

\* variant that does not store the fetched map as current
cancellations_changed_unstored(temp, new_dict, current_time) ==
    LET old_dict == temp.current
    IN  [temp EXCEPT
            !.previous = old_dict,
            !.metadata.current_iteration = @ + 1,
            !.metadata.last_change = current_time]

\* variant that keeps the old previous map
cancellations_changed_keeps_previous(temp, new_dict, current_time) ==
    [temp EXCEPT
        !.current = new_dict,
        !.metadata.current_iteration = @ + 1,
        !.metadata.last_change = current_time]

\* Cancel.is_cancellations_changed, lines 179-183: the document after a detected change
cancellations_changed(temp, new_dict, current_time) ==
    LET old_dict == temp.current
    IN  [temp EXCEPT
            !.current = new_dict,
            !.previous = old_dict,
            !.metadata.current_iteration = @ + 1,
            !.metadata.last_change = current_time]

(* -------------------------------- Mail -------------------------------- *)

\* Mail.__init__ line 31; outbox: the messages handed to send_mail_api
MailInit == [plan_to_send |-> <<>>, outbox |-> <<>>]

\* config["URL"]["cancel"]
url_cancel == "https://wa.amu.edu.pl/wa/Nieobecnosci_WA/"

\* str.replace("\n", "; ") on a cell's text
RECURSIVE replace_newlines(_)
replace_newlines(text) ==
    IF text = <<>> THEN <<>>
    ELSE (IF Head(text) = "\n" THEN <<";", " ">> ELSE <<Head(text)>>)
             \o replace_newlines(Tail(text))

\* zip(a, b, c): the triples, as many as the shortest argument has items
zip(a, b, c) ==
    LET lens == {Len(a), Len(b), Len(c)}
        n == CHOOSE x \in lens : \A y \in lens : x <= y
    IN  [i \in 1..n |-> <<a[i], b[i], c[i]>>]

\* Mail.add_plan_table line 209: the subject of the slot differs
subject_differs(triple) == triple[2] # triple[3]

\* Mail.add_plan_table lines 205-214: the lines appended for one day
plan_table_lines(hours, old_day, new_day) ==
    LET changed == SelectSeq(zip(hours, old_day, new_day), subject_differs)
    IN  [j \in 1..Len(changed) |->
            [hour |-> changed[j][1],
             old_subj |-> replace_newlines(changed[j][2]),
             new_subj |-> replace_newlines(changed[j][3])]]

\* Mail.add_plan_table lines 194-214: the message; the days are visited in the
\* iteration order of a set of strings, so the message is kept per day
add_plan_table(temp) ==
    LET old_plan == temp.previous
        at_time == temp.metadata.last_change_table
        new_plan == temp.current
        shared == DOMAIN old_plan \cap DOMAIN new_plan
    IN  [kind |-> "table",
         at_time |-> at_time,
         lines |-> [day \in shared |->
                       plan_table_lines(new_plan.time, old_plan[day], new_plan[day])]]

\* dict.items()
items(d) == {<<k, d[k]>> : k \in DOMAIN d}

\* sorted(..., key=lambda x: x, reverse=True): the items, greatest key first
RECURSIVE sorted_reverse(_)
sorted_reverse(its) ==
    IF its = {} THEN <<>>
    ELSE LET first == CHOOSE x \in its : \A y \in its : y[1] <= x[1]
         IN  <<first>> \o sorted_reverse(its \ {first})

\* set(d) of a dict kept as its sequence of items
keys(ordered) == {ordered[i][1] : i \in DOMAIN ordered}

\* d[k] of a dict kept as its sequence of items
value_of(ordered, k) == ordered[CHOOSE i \in DOMAIN ordered : ordered[i][1] = k][2]

\* variant that takes as new every item of current that previous does not hold
send_cancel_email_by_items(temp) ==
    LET old_cancel == sorted_reverse(items(temp.previous))
        new_cancel == sorted_reverse(items(temp.current))
    IN  [at_time |-> temp.metadata.last_change,
         iteration |-> temp.metadata.current_iteration,
         difference |-> sorted_reverse(items(temp.current) \ items(temp.previous)),
         link |-> url_cancel,
         history |-> new_cancel]

\* Mail.send_cancel_email lines 255-282: the parts of the message
send_cancel_email(temp) ==
    LET at_time == temp.metadata.last_change
        iteration == temp.metadata.current_iteration
        old_cancel == sorted_reverse(items(temp.previous))
        new_cancel == sorted_reverse(items(temp.current))
        difference == {<<k, value_of(new_cancel, k)>> : k \in keys(new_cancel) \ keys(old_cancel)}
    IN  [at_time |-> at_time,
         iteration |-> iteration,
         difference |-> sorted_reverse(difference),
         link |-> url_cancel,
         history |-> new_cancel]

(* ------------------------------- App ---------------------------------- *)

NoRet == [color |-> "-", link |-> "-", table |-> "-", cancel |-> "-",
          mail_plan |-> "-", mail_cancel |-> "-"]

\* the facts a poll fetched: per fact, the set holding the value, or {};
\* failed holds the checks of the previous cycle whose fetch raised
NoFacts == [color |-> {}, link |-> {}, table |-> {}, cancel |-> {}]

ObsInit == [prev |-> NoFacts, cur |-> NoFacts, iter0 |-> 0,
            npolls |-> 0, fed |-> {}, clean |-> TRUE, failed |-> {}]

\* App.__init__: FileManager has created or found the four documents; on a
\* first run the documents are loaded at once, otherwise on first use
Init ==
    /\ pc = "run"
    /\ num = 0
    /\ config \in [send_email : BOOLEAN, loop_time_in_seconds : {0, 3600}]
    /\ clock = 1
    /\ world \in Worlds
    /\ site = BaseSite
    /\ dPlan = DPlanInit
    /\ dCancel = DCancelInit
    /\ \E first_run \in BOOLEAN :
         /\ plan_disk = TemplatePlan
         /\ cancel_disk = TemplateCancel
         /\ plan = IF first_run THEN TemplatePlan ELSE EmptyDict
         /\ cancel = IF first_run THEN TemplateCancel ELSE EmptyDict
    /\ faults = 0
    /\ ret = NoRet
    /\ mail = MailInit
    /\ obs = ObsInit

\* App.run, lines 170-172: a cycle starts; the sites serve some content during it
LoopTop ==
    /\ pc = "run"
    /\ num < MaxCycles
    /\ num' = num + 1
    /\ \E s \in world : site' = s
    /\ obs' = [obs EXCEPT
                 !.prev = obs.cur, !.cur = NoFacts,
                 !.failed = {k \in DOMAIN NoFacts : ret[k] = "raised" /\ obs.cur[k] = {}}]
    /\ ret' = NoRet
    /\ pc' = "plan_color"
    /\ UNCHANGED <<mail, faults, config, clock, world, dPlan, dCancel, plan, plan_disk, cancel, cancel_disk>>

\* App.get_plan line 99: Plan.is_color_changed
IsColorChanged ==
    /\ pc = "plan_color"
    /\ \E o \in ColorOutcomes(dPlan), lw \in LoadWrites(plan, plan_disk, TemplatePlan),
          w \in WriteOutcomes :
         LET g == FileGet(plan, plan_disk, TemplatePlan, lw)
             temp == g.doc
             f == DPlan_color(dPlan, site, o)
             changed == color_changed(temp, f.value, get_time)
         IN  /\ w \in SaveWrites(~f.raised /\ f.value # temp.metadata.current_color)
             /\ dPlan' = f.d
             /\ LET failed == f.raised \/ (f.value # temp.metadata.current_color /\ w # "ok")
                IN  /\ failed => faults < MaxFaults
                    /\ faults' = IF failed THEN faults + 1 ELSE faults
             /\ IF f.raised
                THEN /\ plan' = temp
                     /\ plan_disk' = g.disk
                     /\ ret' = [ret EXCEPT !.color = "raised"]
                     /\ obs' = [obs EXCEPT !.iter0 = temp.metadata.current_iteration]
                     /\ pc' = "get_cancel"
                ELSE IF f.value # temp.metadata.current_color
                THEN /\ plan' = changed
                     /\ plan_disk' = Json_save_dict(g.disk, changed, w)
                     /\ ret' = [ret EXCEPT !.color = IF w = "ok" THEN "True" ELSE "raised"]
                     /\ obs' = [obs EXCEPT
                                  !.cur.color = {f.value},
                                  !.iter0 = temp.metadata.current_iteration,
                                  !.npolls = IF w = "ok" THEN @ + 1 ELSE @,
                                  !.fed = IF w = "ok" THEN @ \cup {f.value} ELSE @,
                                  !.clean = @ /\ w = "ok"]
                     /\ pc' = IF w # "ok" THEN "get_cancel"
                              ELSE IF config.send_email THEN "mail_plan"
                              ELSE "plan_link"
                ELSE /\ plan' = temp
                     /\ plan_disk' = g.disk
                     /\ ret' = [ret EXCEPT !.color = "False"]
                     /\ obs' = [obs EXCEPT
                                  !.cur.color = {f.value},
                                  !.iter0 = temp.metadata.current_iteration,
                                  !.npolls = @ + 1,
                                  !.fed = @ \cup {f.value}]
                     /\ pc' = "plan_link"
    /\ UNCHANGED <<mail, num, config, clock, world, site, dCancel, cancel, cancel_disk>>

\* variant of get_plan that tests email_enabled first: without notifications
\* the link check is not called
IsLinkChanged_skipped_when_disabled ==
    /\ pc = "plan_link"
    /\ ~config.send_email
    /\ pc' = "plan_table"
    /\ UNCHANGED <<mail, faults, num, config, clock, world, site, dPlan, dCancel, plan, plan_disk,
                   cancel, cancel_disk, ret, obs>>

\* App.get_plan line 102: Plan.is_link_changed
IsLinkChanged ==
    /\ pc = "plan_link"
    /\ \E o \in LinkOutcomes(dPlan), lw \in LoadWrites(plan, plan_disk, TemplatePlan),
          w \in WriteOutcomes :
         LET g == FileGet(plan, plan_disk, TemplatePlan, lw)
             temp == g.doc
             f == DPlan_link(dPlan, site, o)
             changed == link_changed(temp, f.value, get_time)
         IN  /\ w \in SaveWrites(~f.raised /\ f.value # temp.metadata.current_link)
             /\ dPlan' = f.d
             /\ LET failed == f.raised \/ (f.value # temp.metadata.current_link /\ w # "ok")
                IN  /\ failed => faults < MaxFaults
                    /\ faults' = IF failed THEN faults + 1 ELSE faults
             /\ obs' = IF f.raised THEN obs ELSE [obs EXCEPT !.cur.link = {f.value}]
             /\ IF f.raised
                THEN /\ plan' = temp
                     /\ plan_disk' = g.disk
                     /\ ret' = [ret EXCEPT !.link = "raised"]
                     /\ pc' = "get_cancel"
                ELSE IF f.value # temp.metadata.current_link
                THEN /\ plan' = changed
                     /\ plan_disk' = Json_save_dict(g.disk, changed, w)
                     /\ ret' = [ret EXCEPT !.link = IF w = "ok" THEN "True" ELSE "raised"]
                     /\ pc' = IF w # "ok" THEN "get_cancel"
                              ELSE IF config.send_email THEN "mail_plan"
                              ELSE "plan_table"
                ELSE /\ plan' = temp
                     /\ plan_disk' = g.disk
                     /\ ret' = [ret EXCEPT !.link = "False"]
                     /\ pc' = "plan_table"
    /\ UNCHANGED <<mail, num, config, clock, world, site, dCancel, cancel, cancel_disk>>

\* App.get_plan line 105: Plan.is_table_changed
IsTableChanged ==
    /\ pc = "plan_table"
    /\ \E o \in TableOutcomes(dPlan), lw \in LoadWrites(plan, plan_disk, TemplatePlan),
          w \in WriteOutcomes :
         LET g == FileGet(plan, plan_disk, TemplatePlan, lw)
             temp == g.doc
             f == DPlan_table(dPlan, site, o)
             changed == table_changed(temp, f.value, get_time)
         IN  /\ w \in SaveWrites(~f.raised /\ f.value # temp.current)
             /\ dPlan' = f.d
             /\ LET failed == f.raised \/ (f.value # temp.current /\ w # "ok")
                IN  /\ failed => faults < MaxFaults
                    /\ faults' = IF failed THEN faults + 1 ELSE faults
             /\ obs' = IF f.raised THEN obs ELSE [obs EXCEPT !.cur.table = {f.value}]
             /\ IF f.raised
                THEN /\ plan' = temp
                     /\ plan_disk' = g.disk
                     /\ ret' = [ret EXCEPT !.table = "raised"]
                     /\ pc' = "get_cancel"
                ELSE IF f.value # temp.current
                THEN /\ plan' = changed
                     /\ plan_disk' = Json_save_dict(g.disk, changed, w)
                     /\ ret' = [ret EXCEPT !.table = IF w = "ok" THEN "True" ELSE "raised"]
                     /\ pc' = IF w = "ok" /\ config.send_email THEN "mail_plan"
                              ELSE "get_cancel"
                ELSE /\ plan' = temp
                     /\ plan_disk' = g.disk
                     /\ ret' = [ret EXCEPT !.table = "False"]
                     /\ pc' = "get_cancel"
    /\ UNCHANGED <<mail, num, config, clock, world, site, dCancel, cancel, cancel_disk>>

\* get_plan without its "except Exception" clause: the AttributeError leaves run
MailPlan_uncaught ==
    /\ pc = "mail_plan"
    /\ ret' = [ret EXCEPT !.mail_plan = "raised"]
    /\ pc' = "exit"
    /\ UNCHANGED <<mail, faults, num, config, clock, world, site, dPlan, dCancel, plan, plan_disk,
                   cancel, cancel_disk, obs>>

\* App.get_plan lines 100, 103, 106: Mail defines no plan_color, plan_link or
\* plan_table, so the call raises AttributeError, which line 122 catches: the
\* remaining checks of get_plan are skipped
MailPlan ==
    /\ pc = "mail_plan"
    /\ ret' = [ret EXCEPT !.mail_plan = "raised"]
    /\ pc' = "get_cancel"
    /\ UNCHANGED <<mail, faults, num, config, clock, world, site, dPlan, dCancel, plan, plan_disk,
                   cancel, cancel_disk, obs>>

\* App.get_cancel line 137: Cancel.is_cancellations_changed
IsCancellationsChanged ==
    /\ pc = "get_cancel"
    /\ \E o \in CancellationsOutcomes(dCancel),
          lw \in LoadWrites(cancel, cancel_disk, TemplateCancel), w \in WriteOutcomes :
         LET g == FileGet(cancel, cancel_disk, TemplateCancel, lw)
             temp == g.doc
             f == DCancel_cancellations(dCancel, site, o)
             changed == cancellations_changed(temp, f.value, get_time)
         IN  /\ w \in SaveWrites(~f.raised /\ f.value # temp.current)
             /\ dCancel' = f.d
             /\ LET failed == f.raised \/ (f.value # temp.current /\ w # "ok")
                IN  /\ failed => faults < MaxFaults
                    /\ faults' = IF failed THEN faults + 1 ELSE faults
             /\ obs' = IF f.raised THEN obs ELSE [obs EXCEPT !.cur.cancel = {f.value}]
             /\ IF f.raised
                THEN /\ cancel' = temp
                     /\ cancel_disk' = g.disk
                     /\ ret' = [ret EXCEPT !.cancel = "raised"]
                     /\ pc' = "end_cycle"
                ELSE IF f.value # temp.current
                THEN /\ cancel' = changed
                     /\ cancel_disk' = Json_save_dict(g.disk, changed, w)
                     /\ ret' = [ret EXCEPT !.cancel = IF w = "ok" THEN "True" ELSE "raised"]
                     /\ pc' = IF w = "ok" /\ config.send_email THEN "mail_cancel"
                              ELSE "end_cycle"
                ELSE /\ cancel' = temp
                     /\ cancel_disk' = g.disk
                     /\ ret' = [ret EXCEPT !.cancel = "False"]
                     /\ pc' = "end_cycle"
    /\ UNCHANGED <<mail, num, config, clock, world, site, dPlan, plan, plan_disk>>

\* App.get_cancel line 138: Mail defines no cancel_content, so the call raises
\* AttributeError, which line 154 catches
MailCancel ==
    /\ pc = "mail_cancel"
    /\ ret' = [ret EXCEPT !.mail_cancel = "raised"]
    /\ pc' = "end_cycle"
    /\ UNCHANGED <<mail, faults, num, config, clock, world, site, dPlan, dCancel, plan, plan_disk,
                   cancel, cancel_disk, obs>>

\* run without the test of line 182: it goes on to the resets of the next cycle
Quit_keeps_looping ==
    /\ pc = "end_cycle"
    /\ config.loop_time_in_seconds = 0
    /\ pc' = "reset"
    /\ UNCHANGED <<mail, faults, num, config, clock, world, site, dPlan, dCancel, plan, plan_disk,
                   cancel, cancel_disk, ret, obs>>

\* App.run lines 182-184: loop_time_in_seconds is 0, SystemExit
Quit ==
    /\ pc = "end_cycle"
    /\ config.loop_time_in_seconds = 0
    /\ pc' = "exit"
    /\ UNCHANGED <<mail, faults, num, config, clock, world, site, dPlan, dCancel, plan, plan_disk,
                   cancel, cancel_disk, ret, obs>>

\* App.run line 185: sleep_loop.  The wall-clock second read after the sleep
\* is not forced past the one read before it: loop_time_in_seconds is used as
\* configured (any non-zero number, 0.5 included), and localtime() repeats an
\* hour when daylight saving time ends
SleepLoop ==
    /\ pc = "end_cycle"
    /\ config.loop_time_in_seconds # 0
    /\ \E t \in clock..MaxClock : clock' = t
    /\ pc' = "reset"
    /\ UNCHANGED <<mail, faults, num, config, world, site, dPlan, dCancel, plan, plan_disk,
                   cancel, cancel_disk, ret, obs>>

\* variant that purges the plan caches only
Reset_plan_only ==
    /\ pc = "reset"
    /\ dPlan' = DPlanInit
    /\ pc' = "run"
    /\ UNCHANGED <<mail, faults, num, config, clock, world, site, dCancel, plan, plan_disk,
                   cancel, cancel_disk, ret, obs>>

\* variant that leaves the plan caches of the ended cycle in place
Reset_cancel_only ==
    /\ pc = "reset"
    /\ dCancel' = DCancelInit
    /\ pc' = "run"
    /\ UNCHANGED <<mail, faults, num, config, clock, world, site, dPlan, plan, plan_disk,
                   cancel, cancel_disk, ret, obs>>

\* App.run lines 190-191: Plan.reset and Cancel.reset purge the page caches
Reset ==
    /\ pc = "reset"
    /\ dPlan' = DPlanInit
    /\ dCancel' = DCancelInit
    /\ pc' = "run"
    /\ UNCHANGED <<mail, faults, num, config, clock, world, site, plan, plan_disk, cancel, cancel_disk,
                   ret, obs>>

Next ==
    \/ LoopTop
    \/ IsColorChanged
    \/ IsLinkChanged
    \/ IsTableChanged
    \/ MailPlan
    \/ IsCancellationsChanged
    \/ MailCancel
    \/ Quit
    \/ SleepLoop
    \/ Reset

Spec == Init /\ [][Next]_vars

\* the runs in which the sites never change what they serve
LiveInit == Init /\ world = {BaseSite}

\* App.run is the only thread and none of its steps blocks for ever: every
\* download and the mail transport have a timeout, the sleeps are finite
FairSpec == LiveInit /\ [][Next]_vars /\ WF_vars(Next)

\* the plan document an earlier run of the program leaves behind when it
\* recorded the color and the link and its table check failed
StoredPlan ==
    link_changed(color_changed(TemplatePlan, BaseSite.color, 1), BaseSite.link, 1)

\* App.__init__ when FileManager finds the documents of an earlier run
InitRestart ==
    /\ pc = "run"
    /\ num = 0
    /\ config \in [send_email : BOOLEAN, loop_time_in_seconds : {0, 3600}]
    /\ clock = 1
    /\ world \in Worlds
    /\ site = BaseSite
    /\ dPlan = DPlanInit
    /\ dCancel = DCancelInit
    /\ \E first_run \in BOOLEAN :
         /\ plan_disk = StoredPlan
         /\ cancel_disk = TemplateCancel
         /\ plan = IF first_run THEN StoredPlan ELSE EmptyDict
         /\ cancel = IF first_run THEN TemplateCancel ELSE EmptyDict
    /\ faults = 0
    /\ ret = NoRet
    /\ mail = MailInit
    /\ obs = ObsInit

SpecRestart == InitRestart /\ [][Next]_vars

(* --------------------- Mail's formatters on their own ----------------- *)

\* the variables the formatters do not read
AppIdle ==
    /\ num = 0
    /\ config = [send_email |-> TRUE, loop_time_in_seconds |-> 0]
    /\ clock = 1
    /\ world = {BaseSite}
    /\ site = BaseSite
    /\ dPlan = DPlanInit
    /\ dCancel = DCancelInit
    /\ faults = 0
    /\ ret = NoRet
    /\ mail = MailInit
    /\ obs = ObsInit

\* texts of a cell
CellTexts == {<<>>, <<"PHONETICS">>, <<"GRAMMAR", "\n", "room 12">>}

\* week tables of n slots: the hours of the placeholder week, the first one
\* possibly moved; the lessons of monday vary
WeekInputs(n) ==
    {Week(t, mo, [i \in 1..n |-> <<>>]) :
        t \in {SubSeq(base_week.time, 1, n),
               << <<"08:15">> >> \o SubSeq(base_week.time, 2, n)},
        mo \in [1..n -> CellTexts]}

TableInputs == UNION {WeekInputs(n) : n \in 1..MaxSlots}

\* a plan document after a table change: previous and current differ
InitTableMail ==
    /\ pc = "add_plan_table"
    /\ \E old \in TableInputs \cup {base_week}, new \in TableInputs :
         /\ old # new
         /\ plan = [TemplatePlan EXCEPT !.previous = old, !.current = new,
                                        !.metadata.last_change_table = 1]
    /\ plan_disk = plan
    /\ cancel = TemplateCancel
    /\ cancel_disk = TemplateCancel
    /\ AppIdle

\* Mail.add_plan_table
AddPlanTable ==
    /\ pc = "add_plan_table"
    /\ LET g == FileGet(plan, plan_disk, TemplatePlan, "ok")
           temp == g.doc
       IN  /\ plan' = temp
           /\ plan_disk' = g.disk
           /\ mail' = [mail EXCEPT !.plan_to_send = Append(@, add_plan_table(temp))]
    /\ pc' = "done"
    /\ UNCHANGED <<num, config, clock, world, site, dPlan, dCancel, cancel, cancel_disk,
                   faults, ret, obs>>

SpecTableMail == InitTableMail /\ [][AddPlanTable]_vars

DateKeys == 101..(100 + MaxDates)
Titles == {"a", "b"}

\* cancellation maps: some of the date keys, each with a title
CancelInputs == UNION {[D -> Titles] : D \in SUBSET DateKeys}

\* a cancellations document after a change: previous and current differ
InitCancelMail ==
    /\ pc = "send_cancel_email"
    /\ \E old \in CancelInputs \cup {temp_dates}, new \in CancelInputs :
         /\ old # new
         /\ cancel = [TemplateCancel EXCEPT !.previous = old, !.current = new,
                                            !.metadata.current_iteration = 1,
                                            !.metadata.last_change = 1]
    /\ cancel_disk = cancel
    /\ plan = TemplatePlan
    /\ plan_disk = TemplatePlan
    /\ AppIdle

\* Mail.send_cancel_email; whether send_mail_api delivers is up to the mail
\* server
SendCancelEmail ==
    /\ pc = "send_cancel_email"
    /\ LET g == FileGet(cancel, cancel_disk, TemplateCancel, "ok")
           temp == g.doc
           msg == send_cancel_email(temp)
       IN  /\ cancel' = temp
           /\ cancel_disk' = g.disk
           /\ IF msg.difference = <<>>
              THEN /\ ret' = [ret EXCEPT !.mail_cancel = "False"]
                   /\ mail' = mail
              ELSE \E mail_status \in BOOLEAN :
                   /\ mail' = [mail EXCEPT !.outbox =
                                  Append(@, [kind |-> "cancel",
                                             subject |-> msg.iteration,
                                             message |-> msg])]
                   /\ ret' = [ret EXCEPT !.mail_cancel =
                                  IF mail_status THEN "True" ELSE "False"]
    /\ pc' = "done"
    /\ UNCHANGED <<num, config, clock, world, site, dPlan, dCancel, plan, plan_disk,
                   faults, obs>>

SpecCancelMail == InitCancelMail /\ [][SendCancelEmail]_vars

(* ------------------------------ properties ---------------------------- *)

\* the plan / cancellations snapshot: the cached document, or the one a first
\* access would load
PlanSnapshot ==
    IF plan # EmptyDict THEN plan
    ELSE IF DOMAIN plan_disk = DOMAIN TemplatePlan THEN plan_disk ELSE TemplatePlan

CancelSnapshot ==
    IF cancel # EmptyDict THEN cancel
    ELSE IF DOMAIN cancel_disk = DOMAIN TemplateCancel THEN cancel_disk ELSE TemplateCancel

PlanIteration == PlanSnapshot.metadata.current_iteration
CancelIteration == CancelSnapshot.metadata.current_iteration

\* the plan pass of the current cycle is over
PlanPassOver == num >= 1 /\ pc \notin {"plan_color", "plan_link", "plan_table", "mail_plan"}

\* every color poll so far succeeded and fetched a color not fetched before
DistinctColorRun ==
    obs.npolls >= 1 /\ obs.clean /\ Cardinality(obs.fed) = obs.npolls

\* the poll fetched all four facts
AllFetched(facts) == \A k \in DOMAIN facts : facts[k] # {}

\* C1: when the previous poll fetched a color, a link, a table and a
\* cancellation map, every check of the next poll that fetches the same value
\* as the previous poll returns False and leaves both snapshots unchanged.
C1_SecondPollIdempotent ==
    [][\A k \in DOMAIN NoFacts :
          (AllFetched(obs.prev) /\ obs.cur[k] = {} /\ obs'.cur[k] = obs.prev[k]) =>
              /\ ret'[k] = "False"
              /\ PlanSnapshot' = PlanSnapshot
              /\ CancelSnapshot' = CancelSnapshot]_vars

C1_Witness ==
    /\ AllFetched(obs.prev)
    /\ obs.cur = obs.prev
    /\ \A k \in DOMAIN NoFacts : ret[k] = "False"
    /\ plan.metadata.current_iteration = 1
    /\ cancel.metadata.current_iteration = 1

\* C2: after N successful polls from the sentinel snapshot, each fetching a
\* color not fetched before, previous_colors holds exactly N-1 entries.
C2_HistoryHoldsNMinus1 ==
    DistinctColorRun =>
        Cardinality(DOMAIN plan.metadata.previous_colors) = obs.npolls - 1

\* C3 as stated: after N such polls current_iteration has grown by N-1.
C3_IterationGrowsByNMinus1 ==
    DistinctColorRun => plan.metadata.current_iteration = obs.npolls - 1

\* C3 amended: after N such polls current_iteration has grown by exactly N:
\* the transition away from the sentinel is counted too.
C3_IterationGrowsByN ==
    DistinctColorRun => plan.metadata.current_iteration = obs.npolls

C3_Witness ==
    DistinctColorRun /\ obs.npolls = 3 /\ plan.metadata.current_iteration = 3

\* C4: current_iteration of the plan snapshot and of the cancellation snapshot
\* never decreases, whatever fails in a cycle.
C4_IterationNeverDecreases ==
    [][PlanIteration' >= PlanIteration /\ CancelIteration' >= CancelIteration]_vars

C4_Witness ==
    /\ faults >= 1
    /\ num = 3
    /\ PlanIteration >= 2
    /\ CancelIteration >= 2

\* C5 as stated: a plan poll that detected a change in color, link or table
\* ends with current_iteration greater than it began with.
C5_AnyChangeIncrements ==
    (PlanPassOver /\ "True" \in {ret.color, ret.link, ret.table}) =>
        plan.metadata.current_iteration > obs.iter0

\* C5 amended: a plan poll that detected a change of the color ends with
\* current_iteration greater than it began with.
C5_ColorChangeIncrements ==
    (PlanPassOver /\ ret.color = "True") =>
        plan.metadata.current_iteration > obs.iter0

C5_Witness ==
    PlanPassOver /\ ret.color = "True" /\ obs.iter0 >= 1

\* the plan documents p and q differ in the listed top-level keys and metadata keys only
SameBut(p, q, top, meta) ==
    /\ \A k \in DOMAIN p \ (top \cup {"metadata"}) : p[k] = q[k]
    /\ \A k \in DOMAIN p.metadata \ meta : p.metadata[k] = q.metadata[k]

\* C6: the link check changes nothing but current_link, last_change_link and
\* previous_links, the table check nothing but current, previous and
\* last_change_table, and no step but the color check changes current_iteration.
C6_LinkAndTableLeaveIteration ==
    [][/\ pc = "plan_link" =>
            SameBut(PlanSnapshot, PlanSnapshot', {},
                    {"current_link", "last_change_link", "previous_links"})
       /\ pc = "plan_table" =>
            SameBut(PlanSnapshot, PlanSnapshot', {"current", "previous"},
                    {"last_change_table"})
       /\ pc # "plan_color" => PlanIteration' = PlanIteration]_vars

C6_Witness ==
    /\ ret.link = "True"
    /\ ret.table = "True"
    /\ plan.metadata.current_iteration = obs.iter0 + 1
    /\ obs.iter0 = 0

\* C7: when current changes, previous becomes the value current had; when
\* current does not change, previous does not change (plan table and
\* cancellation map alike).
C7_PreviousIsLastCurrent ==
    [][/\ IF PlanSnapshot'.current # PlanSnapshot.current
          THEN PlanSnapshot'.previous = PlanSnapshot.current
          ELSE PlanSnapshot'.previous = PlanSnapshot.previous
       /\ IF CancelSnapshot'.current # CancelSnapshot.current
          THEN CancelSnapshot'.previous = CancelSnapshot.current
          ELSE CancelSnapshot'.previous = CancelSnapshot.previous]_vars

C7_Witness ==
    /\ plan # EmptyDict /\ cancel # EmptyDict
    /\ plan.previous \in Tables /\ plan.current \in Tables
    /\ cancel.previous \in CancelMaps /\ cancel.current \in CancelMaps
    /\ num = 3
    /\ ret.table = "False" /\ ret.cancel = "False"

\* C8: neither history map of the plan snapshot, cached or on disk, holds the
\* sentinel "null" as a value.
C8_NoSentinelInHistory ==
    \A doc \in {PlanSnapshot} \cup (IF DOMAIN plan_disk = DOMAIN TemplatePlan
                                   THEN {plan_disk} ELSE {}) :
        /\ \A t \in DOMAIN doc.metadata.previous_colors :
              doc.metadata.previous_colors[t] # "null"
        /\ \A t \in DOMAIN doc.metadata.previous_links :
              doc.metadata.previous_links[t] # "null"

C8_Witness ==
    /\ plan # EmptyDict
    /\ plan.metadata.previous_colors # EmptyDict
    /\ plan.metadata.previous_links # EmptyDict

\* C9: the message of add_plan_table lists, for every day, exactly the slots
\* whose cell text differs between previous and current (a slot that only one
\* of the two tables has differs), each under the hour of that slot.
C9_TableMessageListsDifferingCells ==
    (pc = "done" /\ mail.plan_to_send # <<>>) =>
        LET msg == mail.plan_to_send[Len(mail.plan_to_send)]
            old == plan.previous
            new == plan.current
            cell(t, day, i) == IF i \in DOMAIN t[day] THEN <<t[day][i]>> ELSE <<>>
            differing(day) == {i \in DOMAIN old[day] \cup DOMAIN new[day] :
                                  cell(old, day, i) # cell(new, day, i)}
            hour(i) == IF i \in DOMAIN new.time THEN new.time[i] ELSE old.time[i]
        IN  \A day \in Days :
               /\ Len(msg.lines[day]) = Cardinality(differing(day))
               /\ {msg.lines[day][j].hour : j \in DOMAIN msg.lines[day]}
                     = {hour(i) : i \in differing(day)}

\* C10: the new entries of a cancellation message are the date keys that
\* current has and previous has not, each once and with its title in current;
\* a key of previous is never among them.
C10_NewEntriesAreAddedKeys ==
    \A n \in DOMAIN mail.outbox :
        mail.outbox[n].kind = "cancel" =>
            LET listed == mail.outbox[n].message.difference
            IN  /\ \A k \in DOMAIN cancel.current \cup DOMAIN cancel.previous :
                      (\E j \in DOMAIN listed : listed[j][1] = k)
                          <=> (k \in DOMAIN cancel.current /\ k \notin DOMAIN cancel.previous)
                /\ \A j \in DOMAIN listed :
                      /\ listed[j][1] \in DOMAIN cancel.current
                      /\ listed[j][2] = cancel.current[listed[j][1]]
                      /\ \A i \in DOMAIN listed : listed[i][1] = listed[j][1] => i = j

C10_Witness ==
    /\ pc = "done"
    /\ cancel.previous = [d \in {101} |-> "a"]
    /\ cancel.current = [d \in {101, 102} |-> IF d = 101 THEN "a" ELSE "b"]
    /\ Len(mail.outbox) = 1
    /\ mail.outbox[1].message.difference = << <<102, "b">> >>

\* C11: with loop_time_in_seconds 0, run() takes the plan pass and then the
\* cancellation pass of its first cycle and terminates: it never sleeps and
\* never starts a second cycle, whatever the checks of the cycle did.
C11_OneCycleThenExit ==
    /\ [](config.loop_time_in_seconds = 0 =>
            /\ num <= 1
            /\ pc \notin {"reset"}
            /\ pc = "exit" => (num = 1 /\ ret.color # "-" /\ ret.cancel # "-"))
    /\ [](pc = "exit" => config.loop_time_in_seconds = 0)
    /\ (config.loop_time_in_seconds = 0) ~> (pc = "exit")

C11_Witness ==
    /\ pc = "exit"
    /\ ret.color = "raised"
    /\ ret.cancel = "True"

\* C12: with a non-zero interval no failure of a cycle ends the loop: every
\* cycle but the last one explored is followed by the next one, and every
\* cycle that started reaches its cancellation check, also after a plan pass
\* that failed.
C12_LoopSurvivesErrors ==
    /\ (config.loop_time_in_seconds # 0 /\ pc = "end_cycle" /\ num < MaxCycles)
          ~> (pc = "plan_color")
    /\ (pc = "plan_color") ~> (pc = "end_cycle")
    /\ [](pc = "end_cycle" => ret.cancel # "-")

C12_Witness ==
    /\ num = 2
    /\ config.loop_time_in_seconds # 0
    /\ ret.color = "raised"
    /\ ret.cancel # "-"
    /\ faults >= 1

\* a check whose fetch raised: nothing was fetched for it in this cycle
FetchFailed(k) == ret[k] = "raised" /\ obs.cur[k] = {}

\* the checks of the current cycle that are over
CycleOver == num >= 1 /\ pc \in {"end_cycle", "reset", "run", "exit"}

\* C13 (the part that holds): the step of a check whose fetch raises returns no
\* True, leaves the plan and the cancellations snapshots and both persisted
\* documents as they were, and leaves the pass it belongs to, so that the check
\* is not made again in the cycle.
C13_FailedFetchLeavesSnapshot ==
    [][\A k \in DOMAIN NoFacts :
          (ret[k] = "-" /\ ret'[k] = "raised" /\ obs'.cur[k] = {}) =>
              /\ PlanSnapshot' = PlanSnapshot
              /\ CancelSnapshot' = CancelSnapshot
              /\ plan_disk' = plan_disk
              /\ cancel_disk' = cancel_disk
              /\ pc' = (IF k = "cancel" THEN "end_cycle" ELSE "get_cancel")]_vars

\* C13: a check whose fetch raised in the previous cycle is made again in the
\* current cycle, at the latest when no fetch and no write fails in it.
C13_FailedCheckMadeNextCycle ==
    \A k \in obs.failed :
        (CycleOver /\ \A j \in DOMAIN NoFacts : ret[j] # "raised") => ret[k] # "-"
\* C14: when a check has detected a change and its notification is about to
\* be made or has failed, the persisted document is the in-memory one and
\* holds what the check recorded: the fetched value as the current one, for a
\* color the counter one above its value before the check and, when a color
\* was recorded before, the history entry of this change.
C14_FailedMailKeepsChange ==
    /\ (pc = "mail_plan" \/ ret.mail_plan = "raised") =>
          /\ ret.color = "True" \/ ret.link = "True" \/ ret.table = "True"
          /\ plan_disk = plan
          /\ ret.color = "True" =>
                /\ obs.cur.color = {plan.metadata.current_color}
                /\ plan.metadata.current_iteration = obs.iter0 + 1
                /\ obs.iter0 >= 1 =>
                      plan.metadata.last_change_color \in DOMAIN plan.metadata.previous_colors
          /\ ret.link = "True" =>
                /\ obs.cur.link = {plan.metadata.current_link}
                /\ plan.metadata.last_change_link \in DOMAIN plan.metadata.previous_links
                      \/ Cardinality(DOMAIN plan.metadata.previous_links) = 0
          /\ ret.table = "True" => obs.cur.table = {plan.current}
    /\ (pc = "mail_cancel" \/ ret.mail_cancel = "raised") =>
          /\ ret.cancel = "True"
          /\ cancel_disk = cancel
          /\ obs.cur.cancel = {cancel.current}
          /\ cancel.metadata.current_iteration >= 1

C14_Witness ==
    /\ ret.mail_plan = "raised"
    /\ ret.mail_cancel = "raised"
    /\ ret.color = "True"
    /\ obs.iter0 >= 1
    /\ num >= 2
\* the plan checks of the current cycle that returned True
PlanChanges == {k \in {"color", "link", "table"} : ret[k] = "True"}

\* the plan messages handed to send_mail_api in the current cycle
PlanMessagesOfCycle ==
    {i \in DOMAIN mail.outbox : mail.outbox[i].kind = "plan" /\ mail.outbox[i].cycle = num}

\* C15: with notifications enabled, once the plan pass of a cycle that
\* detected at least one plan change is over, exactly one plan message was
\* handed to send_mail_api in the cycle, with one numbered section per change.
C15_OnePlanMessagePerCycle ==
    (config.send_email /\ PlanPassOver /\ PlanChanges # {}) =>
        /\ Cardinality(PlanMessagesOfCycle) = 1
        /\ \A i \in PlanMessagesOfCycle :
               Len(mail.outbox[i].sections) = Cardinality(PlanChanges)
\* what the plan snapshot holds for a fact
SnapshotFact(k) ==
    CASE k = "color" -> PlanSnapshot.metadata.current_color
      [] k = "link" -> PlanSnapshot.metadata.current_link
      [] k = "table" -> PlanSnapshot.current

\* the fact served in this cycle differed from the snapshot when the plan pass
\* began: its check recorded it, or the snapshot still holds another value
DifferedAtStart(k) == ret[k] = "True" \/ SnapshotFact(k) # site[k]

\* no fetch and no write failed in the plan pass of the current cycle
PlanPassClean == \A k \in {"color", "link", "table"} : ret[k] # "raised"

\* C16: when the color, the link and the table served in a cycle all differ
\* from the snapshot and no fetch or write fails, then at the end of the plan
\* pass all three checks have returned True and the snapshot, in memory and
\* persisted, holds all three served values, with notifications on or off.
C16_AllThreeDetectedInOneCycle ==
    (PlanPassOver /\ PlanPassClean /\ \A k \in {"color", "link", "table"} : DifferedAtStart(k)) =>
        /\ \A k \in {"color", "link", "table"} : ret[k] = "True" /\ SnapshotFact(k) = site[k]
        /\ plan_disk = plan

\* C16 (the part that holds): the same with notifications off.
C16_AllThreeDetectedWithoutMail ==
    ~config.send_email => C16_AllThreeDetectedInOneCycle
(* ------------------ _Shared.combine_base_link_and_href ---------------- *)

\* Links are sequences of characters here.
MaxParts == 2      \* parts a base link has after its host
MaxSlashes == 2    \* slashes an href begins with

IndexHtml == <<"/", "i", "n", "d", "e", "x", ".", "h", "t", "m", "l">>

\* line 114: the part of the base that is searched for "/index.html"
LeeWay == 15

\* s[-n:]
LastChars(s, n) == IF Len(s) <= n THEN s ELSE SubSeq(s, Len(s) - n + 1, Len(s))

\* needle in s
Contains(s, needle) ==
    \E i \in 1..(Len(s) - Len(needle) + 1) : SubSeq(s, i, i + Len(needle) - 1) = needle

\* s.replace(old, ""): every occurrence, from the left
RECURSIVE replace_with_nothing(_, _)
replace_with_nothing(s, old) ==
    IF Len(s) < Len(old) THEN s
    ELSE IF SubSeq(s, 1, Len(old)) = old
    THEN replace_with_nothing(SubSeq(s, Len(old) + 1, Len(s)), old)
    ELSE <<Head(s)>> \o replace_with_nothing(Tail(s), old)

\* _Shared.combine_base_link_and_href; first[-1] and second[0] raise
\* IndexError on an empty string
combine_base_link_and_href(first, second) ==
    LET f1 == IF Contains(LastChars(first, LeeWay), IndexHtml)
              THEN replace_with_nothing(first, IndexHtml)
              ELSE first
    IN  IF f1 = <<>> \/ second = <<>>
        THEN [raised |-> TRUE, value |-> <<>>]
        ELSE LET f2 == IF f1[Len(f1)] # "/" THEN Append(f1, "/") ELSE f1
                 s2 == IF second[1] = "/" THEN Tail(second) ELSE second
             IN  [raised |-> FALSE, value |-> f2 \o s2]

\* the URL.plan values tried: a host or nothing, then up to MaxParts parts
Host == <<"h", "t", "t", "p", "s", ":", "/", "/", "s", "i", "t", "e", ".", "c", "o", "m">>

Parts == {IndexHtml, <<"/">>, <<"/", "g">>, <<"?", "q">>}

RECURSIVE Join(_)
Join(parts) == IF parts = <<>> THEN <<>> ELSE Head(parts) \o Join(Tail(parts))

BaseLinks ==
    {h \o Join(ps) : h \in {Host, <<>>},
                     ps \in UNION {[1..n -> Parts] : n \in 0..MaxParts}} \ {<<>>}

\* the hrefs the regex can find: slashes, then a file name or nothing
Hrefs ==
    {[i \in 1..n |-> "/"] \o name :
        n \in 0..MaxSlashes, name \in {<<"x", ".", "h", "t", "m", "l">>, <<>>}} \ {<<>>}

\* DownloadPlan.__init__ with a URL.plan, and the href the main page holds
InitLink ==
    /\ pc = "download_pages"
    /\ \E base \in BaseLinks, href \in Hrefs :
         dPlan = [url |-> base, href |-> href, sub_link |-> <<>>]
    /\ num = 0
    /\ config = [send_email |-> TRUE, loop_time_in_seconds |-> 0]
    /\ clock = 1
    /\ world = {BaseSite}
    /\ site = BaseSite
    /\ dCancel = DCancelInit
    /\ plan = TemplatePlan
    /\ plan_disk = TemplatePlan
    /\ cancel = TemplateCancel
    /\ cancel_disk = TemplateCancel
    /\ faults = 0
    /\ ret = NoRet
    /\ mail = MailInit
    /\ obs = ObsInit

\* DownloadPlan._download_pages lines 310-312: the sub link is resolved
ResolveSubLink ==
    /\ pc = "download_pages"
    /\ LET r == combine_base_link_and_href(dPlan.url, dPlan.href)
       IN  IF r.raised
           THEN /\ ret' = [ret EXCEPT !.link = "raised"]
                /\ dPlan' = dPlan
           ELSE /\ ret' = [ret EXCEPT !.link = "ok"]
                /\ dPlan' = [dPlan EXCEPT !.sub_link = r.value]
    /\ pc' = "done"
    /\ UNCHANGED <<mail, num, config, clock, world, site, dCancel, plan, plan_disk, cancel,
                   cancel_disk, faults, obs>>

SpecLink == InitLink /\ [][ResolveSubLink]_vars

\* s ends with suffix
EndsWith(s, suffix) == LastChars(s, Len(suffix)) = suffix /\ Len(s) >= Len(suffix)

\* s without the last n characters
DropLast(s, n) == SubSeq(s, 1, Len(s) - n)

RECURSIVE StripLeadingSlashes(_)
StripLeadingSlashes(s) ==
    IF s # <<>> /\ Head(s) = "/" THEN StripLeadingSlashes(Tail(s)) ELSE s

\* the link the description gives: the base without a trailing "/index.html",
\* one slash (the base's own when it ends with one), the href without leading
\* slashes
DescribedLink(base, href) ==
    LET b1 == IF EndsWith(base, IndexHtml) THEN DropLast(base, Len(IndexHtml)) ELSE base
        b2 == IF EndsWith(b1, <<"/">>) THEN DropLast(b1, 1) ELSE b1
    IN  b2 \o <<"/">> \o StripLeadingSlashes(href)

\* C17: for every non-empty base and href, combine_base_link_and_href returns
\* the base without a trailing "/index.html", then exactly one "/", then the
\* href without any leading slash.
C17_CombineJoinsWithOneSlash ==
    pc = "done" =>
        /\ ret.link = "ok"
        /\ dPlan.sub_link = DescribedLink(dPlan.url, dPlan.href)

\* C17 (the part that holds): the two links of the description resolve to
\* "https://site.com/x.html".
C17_Examples ==
    LET x == <<"x", ".", "h", "t", "m", "l">>
    IN  /\ combine_base_link_and_href(Host \o IndexHtml, <<"/">> \o x).value = Host \o <<"/">> \o x
        /\ combine_base_link_and_href(Host, x).value = Host \o <<"/">> \o x
(* ------------- the store: Json.save_dict and Json.load_dict ------------ *)

\* Here a history is a Python dict with its insertion order: a sequence of
\* <<key, value>> pairs with distinct keys.
MaxMoments == 3    \* moments at which a change can be recorded

\* local dates around a new year, in the order in which they occur; weekday 1
\* is Monday
Calendar ==
    << [year |-> 2024, month |-> 12, day |-> 29, weekday |-> 7],
       [year |-> 2024, month |-> 12, day |-> 30, weekday |-> 1],
       [year |-> 2025, month |-> 1, day |-> 1, weekday |-> 3],
       [year |-> 2025, month |-> 1, day |-> 2, weekday |-> 4],
       [year |-> 2025, month |-> 1, day |-> 3, weekday |-> 5] >>

\* strftime's %G: the year of the ISO week the date lies in
iso_year(m) ==
    IF m.month = 12 /\ m.day >= 29 /\ m.weekday <= m.day - 28 THEN m.year + 1
    ELSE IF m.month = 1 /\ m.day <= 3 /\ m.weekday >= m.day + 4 THEN m.year - 1
    ELSE m.year

\* _get_time: strftime("%G-%m-%d %T"), as the number whose order is the
\* order of the strings (the time of day is left out)
strftime_G_m_d(m) == iso_year(m) * 10000 + m.month * 100 + m.day

\* dict.update({key: value}) on a dict with insertion order
ordered_update(pairs, key, value) ==
    IF \E i \in DOMAIN pairs : pairs[i][1] = key
    THEN [i \in DOMAIN pairs |-> IF pairs[i][1] = key THEN <<key, value>> ELSE pairs[i]]
    ELSE Append(pairs, <<key, value>>)

\* Plan.is_color_changed lines 59-66 on a document with ordered histories
color_changed_ordered(temp, new_color, current_time) ==
    LET old_color == temp.metadata.current_color
    IN  [temp EXCEPT
            !.metadata.last_change_color = current_time,
            !.metadata.current_color = new_color,
            !.metadata.current_iteration = @ + 1,
            !.metadata.previous_colors =
                IF old_color # "null" THEN ordered_update(@, current_time, old_color) ELSE @]

\* pairs with p put before the first pair with a larger key
RECURSIVE insert_by_key(_, _)
insert_by_key(p, pairs) ==
    IF pairs = <<>> THEN <<p>>
    ELSE IF p[1] <= Head(pairs)[1] THEN <<p>> \o pairs
    ELSE <<Head(pairs)>> \o insert_by_key(p, Tail(pairs))

\* sort_keys=True on one dict
RECURSIVE sort_keys(_)
sort_keys(pairs) ==
    IF pairs = <<>> THEN <<>> ELSE insert_by_key(Head(pairs), sort_keys(Tail(pairs)))

\* a dump that keeps the insertion order
json_dump_unsorted(value) == value

\* Json.save_dict line 81: dump(value, f, indent=4, sort_keys=True); the file
\* holds the document with the keys of every dict in ascending order
json_dump(value) ==
    [value EXCEPT !.metadata.previous_colors = sort_keys(@),
                  !.metadata.previous_links = sort_keys(@)]

\* the placeholder plan, its two empty histories as ordered dicts
OrderedTemplatePlan ==
    [TemplatePlan EXCEPT !.metadata.previous_colors = <<>>, !.metadata.previous_links = <<>>]

\* FileManager.__init__ on a first run: the placeholder plan is on disk and
\* in the cache
InitStore ==
    /\ pc = "run"
    /\ clock = 1
    /\ plan = OrderedTemplatePlan
    /\ plan_disk = json_dump(OrderedTemplatePlan)
    /\ obs = [written |-> OrderedTemplatePlan]
    /\ num = 0
    /\ config = [send_email |-> FALSE, loop_time_in_seconds |-> 3600]
    /\ world = {BaseSite}
    /\ site = BaseSite
    /\ dPlan = DPlanInit
    /\ dCancel = DCancelInit
    /\ cancel = TemplateCancel
    /\ cancel_disk = TemplateCancel
    /\ faults = 0
    /\ ret = NoRet
    /\ mail = MailInit

\* Plan.is_color_changed finds another color at some later moment (or in the
\* same second) and writes the document through the plan setter
StoreColorChange ==
    /\ pc = "run"
    /\ plan.metadata.current_iteration < MaxMoments
    /\ \E c \in Colors \ {plan.metadata.current_color}, t \in clock..MaxMoments :
         LET changed == color_changed_ordered(plan, c, strftime_G_m_d(Calendar[t]))
         IN  /\ plan' = changed
             /\ plan_disk' = json_dump(changed)
             /\ obs' = [written |-> changed]
             /\ clock' = t
    /\ UNCHANGED <<pc, mail, num, config, world, site, dPlan, dCancel, cancel, cancel_disk,
                   faults, ret>>

\* the program starts again: FileManager.plan (getter) with an empty cache
\* loads the document from disk
LoadPlan ==
    /\ pc = "run"
    /\ plan' = FileGet(EmptyDict, plan_disk, OrderedTemplatePlan, "ok").doc
    /\ pc' = "restarted"
    /\ UNCHANGED <<plan_disk, obs, clock, mail, num, config, world, site, dPlan, dCancel,
                   cancel, cancel_disk, faults, ret>>

SpecStore == InitStore /\ [][StoreColorChange \/ LoadPlan]_vars

\* a dict with insertion order as the mapping it is
AsMap(pairs) ==
    [k \in {pairs[i][1] : i \in DOMAIN pairs} |->
        (CHOOSE p \in {pairs[i] : i \in DOMAIN pairs} : p[1] = k)[2]]

\* a plan document with its histories as mappings
Unordered(doc) ==
    [doc EXCEPT !.metadata.previous_colors = AsMap(@), !.metadata.previous_links = AsMap(@)]

IsAscending(pairs) ==
    \A i, j \in DOMAIN pairs : i < j => pairs[i][1] < pairs[j][1]

\* C18 as stated: the plan loaded with an empty cache is the plan written,
\* the history entries in the same order.
C18_RoundTripKeepsOrder ==
    pc = "restarted" => plan = obs.written

\* C18 amended: the plan loaded with an empty cache has the keys and the
\* values of the plan written, and its history entries are in ascending key
\* order.
C18_RoundTripKeepsMapping ==
    pc = "restarted" =>
        /\ Unordered(plan) = Unordered(obs.written)
        /\ Len(plan.metadata.previous_colors) = Len(obs.written.metadata.previous_colors)
        /\ IsAscending(plan.metadata.previous_colors)

C18_Witness ==
    /\ pc = "restarted"
    /\ Len(obs.written.metadata.previous_colors) = 2
    /\ ~IsAscending(obs.written.metadata.previous_colors)
(* ------------------------- Mail.add_plan_color ------------------------ *)

\* sorted(d.items(), key=lambda x: x, reverse=False): smallest key first
RECURSIVE sorted_items(_)
sorted_items(its) ==
    IF its = {} THEN <<>>
    ELSE LET first == CHOOSE x \in its : \A y \in its : x[1] <= y[1]
         IN  <<first>> \o sorted_items(its \ {first})

\* variant that always writes the "from" clause and the history block
add_plan_color_always_from(temp) ==
    LET old_colors == sorted_items(items(temp.metadata.previous_colors))
    IN  [kind |-> "color",
         from |-> IF old_colors = <<>> THEN <<"null">> ELSE <<old_colors[Len(old_colors)][2]>>,
         to |-> temp.metadata.current_color,
         at_time |-> temp.metadata.last_change_color,
         iteration |-> temp.metadata.current_iteration,
         history_block |-> TRUE,
         history |-> old_colors]

\* Mail.add_plan_color: the message, as its parts.  from is empty when the
\* text reads "changed to", history_block tells whether "full colors history:"
\* and its numbered entries follow
add_plan_color(temp) ==
    LET old_colors == sorted_items(items(temp.metadata.previous_colors))
    IN  [kind |-> "color",
         from |-> IF old_colors = <<>> THEN <<>> ELSE <<old_colors[Len(old_colors)][2]>>,
         to |-> temp.metadata.current_color,
         at_time |-> temp.metadata.last_change_color,
         iteration |-> temp.metadata.current_iteration,
         history_block |-> old_colors # <<>>,
         history |-> old_colors]

\* the program starts on the placeholder plan document
InitColorMail ==
    /\ pc = "is_color_changed"
    /\ plan_disk = TemplatePlan
    /\ plan \in {TemplatePlan, EmptyDict}
    /\ cancel = TemplateCancel
    /\ cancel_disk = TemplateCancel
    /\ AppIdle

\* Plan.is_color_changed with the color the site serves
PollColor ==
    /\ pc = "is_color_changed"
    /\ PlanSnapshot.metadata.current_iteration < MaxCycles
    /\ \E c \in Colors, t \in clock..MaxClock :
         LET g == FileGet(plan, plan_disk, TemplatePlan, "ok")
             temp == g.doc
             changed == color_changed(temp, c, t)
         IN  /\ clock' = t
             /\ obs' = [obs EXCEPT !.cur.color = {c}]
             /\ IF c # temp.metadata.current_color
                THEN /\ plan' = changed
                     /\ plan_disk' = Json_save_dict(g.disk, changed, "ok")
                     /\ ret' = [ret EXCEPT !.color = "True"]
                     /\ pc' = "add_plan_color"
                ELSE /\ plan' = temp
                     /\ plan_disk' = g.disk
                     /\ ret' = [ret EXCEPT !.color = "False"]
                     /\ pc' = pc
    /\ UNCHANGED <<mail, num, config, world, site, dPlan, dCancel, cancel, cancel_disk, faults>>

\* Mail.add_plan_color
AddPlanColor ==
    /\ pc = "add_plan_color"
    /\ mail' = [mail EXCEPT !.plan_to_send = Append(@, add_plan_color(plan))]
    /\ pc' = "is_color_changed"
    /\ UNCHANGED <<num, config, clock, world, site, dPlan, dCancel, plan, plan_disk, cancel,
                   cancel_disk, faults, ret, obs>>

SpecColorMail == InitColorMail /\ [][PollColor \/ AddPlanColor]_vars

\* C19: from the placeholder plan (current_color "null", no history) a poll
\* that fetches color C returns True, makes C the current color in memory and
\* on disk and leaves previous_colors empty; the message formatted for it
\* names C, has no "from" clause and no history block.
C19_FirstRunFromSentinel ==
    /\ [][(pc = "is_color_changed" /\ PlanSnapshot = TemplatePlan) =>
             /\ ret'.color = "True"
             /\ obs'.cur.color = {plan'.metadata.current_color}
             /\ plan'.metadata.previous_colors = EmptyDict
             /\ plan'.metadata.current_iteration = 1
             /\ plan_disk' = plan']_vars
    /\ [][(pc = "add_plan_color" /\ plan.metadata.current_iteration = 1) =>
             LET msg == mail'.plan_to_send[Len(mail'.plan_to_send)]
             IN  /\ msg.to = plan.metadata.current_color
                 /\ msg.from = <<>>
                 /\ ~msg.history_block
                 /\ msg.history = <<>>]_vars

C19_Witness ==
    /\ Len(mail.plan_to_send) = 1
    /\ mail.plan_to_send[1].iteration = 1
    /\ mail.plan_to_send[1].to = "CD61B8"
    /\ plan.metadata.current_color = "CD61B8"
    /\ plan.metadata.previous_colors = EmptyDict
(* ------------------- LoadByType on documents found on disk ------------- *)

\* d without the key k
Without(d, k) == [j \in DOMAIN d \ {k} |-> d[j]]

\* what a document file can hold when the program starts: nothing that parses
\* to a JSON object, the placeholder, a document of an earlier run, or one
\* of these with a key missing or added, at the top or inside metadata
DocsOnDisk(template, stored) ==
    {EmptyDict, template, stored}
    \cup {Without(stored, k) : k \in DOMAIN stored}
    \cup {[k \in DOMAIN stored \cup {"comment"} |->
              IF k = "comment" THEN <<>> ELSE stored[k]]}
    \cup {[stored EXCEPT !.metadata = Without(@, k)] : k \in DOMAIN stored.metadata}

\* the cancellations document an earlier run leaves behind
StoredCancel == cancellations_changed(TemplateCancel, BaseSite.cancellations, 1)

\* FileManager.__init__ when the files exist: nothing is cached
InitLoad ==
    /\ pc = "load_plan"
    /\ plan_disk \in DocsOnDisk(TemplatePlan, StoredPlan)
    /\ cancel_disk \in DocsOnDisk(TemplateCancel, StoredCancel)
    /\ plan = EmptyDict
    /\ cancel = EmptyDict
    /\ obs = [plan |-> plan_disk, cancel |-> cancel_disk]
    /\ num = 0
    /\ config = [send_email |-> FALSE, loop_time_in_seconds |-> 0]
    /\ clock = 1
    /\ world = {BaseSite}
    /\ site = BaseSite
    /\ dPlan = DPlanInit
    /\ dCancel = DCancelInit
    /\ faults = 0
    /\ ret = NoRet
    /\ mail = MailInit

\* FileManager.plan (getter) on the empty cache: LoadByType.plan
LoadPlanFile ==
    /\ pc = "load_plan"
    /\ \E w \in LoadWrites(plan, plan_disk, TemplatePlan) :
         LET g == FileGet(plan, plan_disk, TemplatePlan, w)
         IN  /\ plan' = g.doc
             /\ plan_disk' = g.disk
             /\ faults' = IF w = "ok" THEN faults ELSE faults + 1
    /\ pc' = "load_cancel"
    /\ UNCHANGED <<mail, num, config, clock, world, site, dPlan, dCancel, cancel, cancel_disk,
                   ret, obs>>

\* FileManager.cancel (getter) on the empty cache: LoadByType.cancel
LoadCancelFile ==
    /\ pc = "load_cancel"
    /\ \E w \in LoadWrites(cancel, cancel_disk, TemplateCancel) :
         LET g == FileGet(cancel, cancel_disk, TemplateCancel, w)
         IN  /\ cancel' = g.doc
             /\ cancel_disk' = g.disk
             /\ faults' = IF w = "ok" THEN faults ELSE faults + 1
    /\ pc' = "read"
    /\ UNCHANGED <<mail, num, config, clock, world, site, dPlan, dCancel, plan, plan_disk,
                   ret, obs>>

\* Plan.is_color_changed line 57 and Cancel.is_cancellations_changed lines
\* 182 and 190: the keys the checks read from the loaded documents; a missing
\* key raises KeyError
ReadLoaded ==
    /\ pc = "read"
    /\ ret' = [ret EXCEPT
                 !.color = IF "current_color" \in DOMAIN plan.metadata
                           THEN "read" ELSE "raised",
                 !.cancel = IF "current_iteration" \in DOMAIN cancel.metadata
                            THEN "read" ELSE "raised"]
    /\ pc' = "done"
    /\ UNCHANGED <<mail, num, config, clock, world, site, dPlan, dCancel, plan, plan_disk,
                   cancel, cancel_disk, faults, obs>>

SpecLoad == InitLoad /\ [][LoadPlanFile \/ LoadCancelFile \/ ReadLoaded]_vars

\* the document has the keys of the placeholder, at the top and in metadata
HasExpectedKeys(doc, template) ==
    /\ DOMAIN doc = DOMAIN template
    /\ DOMAIN doc.metadata = DOMAIN template.metadata

\* what the description says of one loaded document
LoadedAsDescribed(stored, template, cache, disk) ==
    IF HasExpectedKeys(stored, template)
    THEN cache = stored /\ disk = stored
    ELSE cache = template /\ disk = template

\* C20: when every write succeeds, loading a document never raises and no
\* schema error reaches the checks; a document that is missing, unreadable or
\* lacks expected keys is replaced by the placeholder, returned and written
\* back; a document with the expected keys is returned as stored and not
\* rewritten.
C20_LoadRecoversSchemaErrors ==
    (pc = "done" /\ faults = 0) =>
        /\ ret.color # "raised" /\ ret.cancel # "raised"
        /\ LoadedAsDescribed(obs.plan, TemplatePlan, plan, plan_disk)
        /\ LoadedAsDescribed(obs.cancel, TemplateCancel, cancel, cancel_disk)

\* C20 (the part that holds): LoadByType looks at the top-level keys only;
\* when they are the placeholder's the document is returned as stored and
\* the file is left alone, otherwise the placeholder is returned and, unless
\* the write fails, written to the file.
C20_TopLevelKeysDecide ==
    pc = "done" =>
        /\ IF DOMAIN obs.plan = DOMAIN TemplatePlan
           THEN plan = obs.plan /\ plan_disk = obs.plan
           ELSE plan = TemplatePlan /\ (plan_disk = TemplatePlan \/ faults >= 1)
        /\ IF DOMAIN obs.cancel = DOMAIN TemplateCancel
           THEN cancel = obs.cancel /\ cancel_disk = obs.cancel
           ELSE cancel = TemplateCancel /\ (cancel_disk = TemplateCancel \/ faults >= 1)

(* --------------------------- Mail.send_mail_api ------------------------ *)

MaxReceivers == 2    \* addresses in email_receivers

\* _templates.secret: the placeholder sender
default_sender == "name.surname@example.mail.com"

\* _templates.secret
TemplateSecret ==
    [email_sender |-> [username |-> default_sender, password |-> "123",
                       port |-> 465, server |-> "example.mail.com"],
     email_receivers |-> <<"name.surname@mail.com">>]

\* Mail.footer, as one piece of text
footer == "footer"

\* how the SMTP server can answer: the connection or the login fails, or
\* send_message raises for the fail_at-th receiver (0: for none)
SmtpOutcomes ==
    [connect : BOOLEAN, login : BOOLEAN, fail_at : 0..MaxReceivers]

\* send_mail_api lines 56-70: the keys read before any connection is made
SecretIsComplete(secret) ==
    /\ DOMAIN secret = {"email_sender", "email_receivers"}
    /\ DOMAIN secret.email_sender = {"username", "password", "port", "server"}

\* lines 93-102: the e-mails handed to the server, in order; message grows by
\* the footer once per receiver, and the loop ends where send_message raises
RECURSIVE send_loop(_, _, _, _, _)
send_loop(receiver_emails, i, subject, message, fail_at) ==
    IF i > Len(receiver_emails) THEN [sent |-> <<>>, raised |-> FALSE]
    ELSE LET grown == Append(message, footer)
         IN  IF i = fail_at THEN [sent |-> <<>>, raised |-> TRUE]
             ELSE LET rest == send_loop(receiver_emails, i + 1, subject, grown, fail_at)
                  IN  [sent |-> << [To |-> receiver_emails[i], Subject |-> subject,
                                     content |-> grown] >> \o rest.sent,
                       raised |-> rest.raised]

\* variant without the test of the placeholder sender
send_mail_api_untested(secret, subject, message, smtp) ==
    IF ~SecretIsComplete(secret)
    THEN [has_succeeded |-> FALSE, connections |-> 0, sent |-> <<>>]
    ELSE IF ~smtp.connect \/ ~smtp.login
    THEN [has_succeeded |-> FALSE, connections |-> 1, sent |-> <<>>]
    ELSE LET r == send_loop(secret.email_receivers, 1, subject, message, smtp.fail_at)
         IN  [has_succeeded |-> ~r.raised, connections |-> 1, sent |-> r.sent]

\* Mail.send_mail_api: the value returned, the SMTP connections opened and the
\* e-mails the server took; "finally: return" lets no exception out
send_mail_api(secret, subject, message, smtp) ==
    IF ~SecretIsComplete(secret) \/ secret.email_sender.username = default_sender
    THEN [has_succeeded |-> FALSE, connections |-> 0, sent |-> <<>>]
    ELSE IF ~smtp.connect \/ ~smtp.login
    THEN [has_succeeded |-> FALSE, connections |-> 1, sent |-> <<>>]
    ELSE LET r == send_loop(secret.email_receivers, 1, subject, message, smtp.fail_at)
         IN  [has_succeeded |-> ~r.raised, connections |-> 1, sent |-> r.sent]

Addresses == {"a@mail.com", "b@mail.com", "c@mail.com"}

\* receiver lists without repetition
ReceiverLists ==
    {r \in UNION {[1..n -> Addresses] : n \in 0..MaxReceivers} :
        \A i, j \in DOMAIN r : r[i] = r[j] => i = j}

\* the secret documents tried: the sender is the placeholder or not, and the
\* password or the receivers may be missing
Secrets ==
    LET full == {[TemplateSecret EXCEPT !.email_sender.username = u, !.email_receivers = r] :
                    u \in {default_sender, "me@mail.com"}, r \in ReceiverLists}
    IN  full
        \cup {[s EXCEPT !.email_sender = Without(@, "password")] : s \in full}
        \cup {Without(s, "email_receivers") : s \in full}

\* a notification is about to be sent
InitSendMail ==
    /\ pc = "send_mail_api"
    /\ \E secret \in Secrets, smtp \in SmtpOutcomes,
          subject \in {"plan", "cancel"}, message \in {<<"text">>, <<>>} :
         obs = [secret |-> secret, smtp |-> smtp, subject |-> subject, message |-> message]
    /\ mail = [plan_to_send |-> <<>>, outbox |-> <<>>, connections |-> 0]
    /\ plan = TemplatePlan
    /\ plan_disk = TemplatePlan
    /\ cancel = TemplateCancel
    /\ cancel_disk = TemplateCancel
    /\ num = 0
    /\ config = [send_email |-> TRUE, loop_time_in_seconds |-> 0]
    /\ clock = 1
    /\ world = {BaseSite}
    /\ site = BaseSite
    /\ dPlan = DPlanInit
    /\ dCancel = DCancelInit
    /\ faults = 0
    /\ ret = NoRet

\* Mail.send_mail_api is called
SendMailApi ==
    /\ pc = "send_mail_api"
    /\ LET r == send_mail_api(obs.secret, obs.subject, obs.message, obs.smtp)
       IN  /\ mail' = [mail EXCEPT !.outbox = r.sent, !.connections = r.connections]
           /\ ret' = [ret EXCEPT !.mail_plan = IF r.has_succeeded THEN "True" ELSE "False"]
    /\ pc' = "done"
    /\ UNCHANGED <<num, config, clock, world, site, dPlan, dCancel, plan, plan_disk, cancel,
                   cancel_disk, faults, obs>>

SpecSendMail == InitSendMail /\ [][SendMailApi]_vars

\* the secret names the placeholder sender
SenderIsDefault(secret) ==
    /\ "email_sender" \in DOMAIN secret
    /\ "username" \in DOMAIN secret.email_sender
    /\ secret.email_sender.username = default_sender

\* C21: when the sender of the secret document is the placeholder
\* name.surname@example.mail.com, send_mail_api returns False, opens no SMTP
\* connection and hands over no e-mail, for every subject, message, receiver
\* list and server answer.
C21_DefaultSenderSendsNothing ==
    (pc = "done" /\ SenderIsDefault(obs.secret)) =>
        /\ ret.mail_plan = "False"
        /\ mail.connections = 0
        /\ mail.outbox = <<>>

C21_Witness ==
    /\ pc = "done"
    /\ SenderIsDefault(obs.secret)
    /\ SecretIsComplete(obs.secret)
    /\ Len(obs.secret.email_receivers) = 2
    /\ obs.smtp = [connect |-> TRUE, login |-> TRUE, fail_at |-> 0]
    /\ ret.mail_plan = "False"

\* C22: a cancellation check that fetched a map differing from current makes,
\* in that step, previous the old current, current the fetched map, the
\* counter one larger and last_change the time read; a check that fetched the
\* map current holds leaves the cancellations snapshot and the persisted
\* document as they were.
C22_CancellationCheckInOneStep ==
    [][(pc = "get_cancel" /\ obs'.cur.cancel # {}) =>
          LET fetched == CHOOSE v \in obs'.cur.cancel : TRUE
              old == CancelSnapshot
          IN  IF fetched # old.current
              THEN /\ cancel'.previous = old.current
                   /\ cancel'.current = fetched
                   /\ cancel'.metadata.current_iteration = old.metadata.current_iteration + 1
                   /\ cancel'.metadata.last_change = get_time
                   /\ DOMAIN cancel' = DOMAIN old
                   /\ ret'.cancel # "False"
              ELSE /\ CancelSnapshot' = old
                   /\ cancel_disk' = cancel_disk
                   /\ ret'.cancel = "False"]_vars

C22_Witness ==
    /\ ret.cancel = "True"
    /\ cancel.metadata.current_iteration = 2
    /\ cancel.previous = BaseSite.cancellations
    /\ cancel.current # BaseSite.cancellations
    /\ cancel_disk = cancel

\* the plan document on disk holds the value that check k found
PersistedFact(k) ==
    /\ DOMAIN plan_disk = DOMAIN TemplatePlan
    /\ CASE k = "color" -> plan_disk.metadata.current_color \in obs.cur.color
         [] k = "link" -> plan_disk.metadata.current_link \in obs.cur.link
         [] OTHER -> plan_disk.current \in obs.cur.table

\* C23: once a check of the cycle has reported a change, the plan document on
\* disk holds that change at every later point of the cycle, so stopping the
\* program between two checks loses no change an earlier check detected.
C23_EarlierChangeStaysPersisted ==
    \A k \in {"color", "link", "table"} :
        ret[k] = "True" => PersistedFact(k)

\* the write of a detected change comes first: when the notification for it
\* is about to be attempted the document on disk is the document in memory
C23_WrittenBeforeNotification ==
    /\ pc = "mail_plan" => plan_disk = plan
    /\ pc = "mail_cancel" => cancel_disk = cancel

\* C24: when a cycle is about to start, and when its first check starts, the
\* page caches of both fetchers (pages, sub-link, colour, table, cancellation
\* map) are empty, also after a cycle that ended in an error; the purge
\* itself changes neither snapshot nor the files.
C24_CachesEmptyBetweenCycles ==
    /\ [](pc \in {"run", "plan_color"} => (dPlan = DPlanInit /\ dCancel = DCancelInit))
    /\ [][pc = "reset" =>
            /\ dPlan' = DPlanInit /\ dCancel' = DCancelInit
            /\ plan' = plan /\ plan_disk' = plan_disk
            /\ cancel' = cancel /\ cancel_disk' = cancel_disk]_vars

\* the second cycle starts with empty caches after a first cycle in which a
\* check failed and another one had filled the cancellation cache
C24_Witness ==
    /\ pc = "plan_color"
    /\ num = 2
    /\ obs.failed # {}
    /\ obs.prev.cancel # {}
    /\ dPlan = DPlanInit
    /\ dCancel = DCancelInit

\* C25: between two purges the index page and the sub-page are each requested
\* at most once, and a check that finds both pages cached makes no request,
\* keeps the pages, and reads the link and the table the cached pages hold.
C25_PagesDownloadedOncePerCycle ==
    /\ [](dPlan.requests.main <= 1 /\ dPlan.requests.sub <= 1)
    /\ [][(pc \in {"plan_link", "plan_table"}
            /\ dPlan.main_page # None /\ dPlan.sub_page # None) =>
              /\ dPlan'.requests = dPlan.requests
              /\ dPlan'.main_page = dPlan.main_page
              /\ dPlan'.sub_page = dPlan.sub_page
              /\ dPlan'.main_color = dPlan.main_color
              /\ (pc = "plan_link" => obs'.cur.link = {dPlan.main_page.link})
              /\ (pc = "plan_table" /\ ret'.table # "raised" =>
                      obs'.cur.table = {dPlan.sub_page.table})]_vars

\* all three facts of a cycle were read after one request for each page
C25_Witness ==
    /\ pc = "get_cancel"
    /\ ret.color \in {"True", "False"}
    /\ ret.link \in {"True", "False"}
    /\ ret.table \in {"True", "False"}
    /\ dPlan.requests = [main |-> 1, sub |-> 1]
    /\ obs.cur.color = {dPlan.main_color}
    /\ obs.cur.link = {dPlan.sub_link}
    /\ obs.cur.table = {dPlan.sub_table}

(* ---------------- DownloadPlan._get_table_from_soup ------------------- *)
(* The sub page is the list of its table's rows, a row the list of its    *)
(* cells, and in this part a cell's text is the sequence of its           *)
(* characters. The first row is the header.                               *)

\* data rows of a fetched table
MaxRows == 2
\* pages fetched one after the other
MaxPages == 2

\* str.replace(".", ":")
replace_dot(text) == [i \in 1..Len(text) |-> IF text[i] = "." THEN ":" ELSE text[i]]

\* len(text.split(":")[0])
RECURSIVE len_before_colon(_, _)
len_before_colon(text, i) ==
    IF i > Len(text) \/ text[i] = ":" THEN i - 1 ELSE len_before_colon(text, i + 1)

\* lines 254-259: the hour cell with a colon and a two-digit hour
hour_text(text) ==
    LET t == replace_dot(text)
    IN  IF len_before_colon(t, 1) = 1 THEN <<"0">> \o t ELSE t

\* for num, key in enumerate(r)
TableKeys == <<"time", "monday", "tuesday", "wednesday", "thursday", "friday">>

EmptyTable == [k \in Days |-> <<>>]

\* lines 245-264: the texts of a row's cells
row_data(tr) == [n \in 1..Len(tr) |-> IF n = 1 THEN hour_text(tr[n]) ELSE tr[n]]

\* variant of the loop that stores the cells a row has, up to six
RECURSIVE parse_rows_any_length(_, _, _)
parse_rows_any_length(rows, tr_num, r) ==
    IF tr_num > Len(rows) THEN [raised |-> FALSE, value |-> r]
    ELSE IF tr_num = 1 THEN parse_rows_any_length(rows, 2, r)
    ELSE LET data == row_data(rows[tr_num])
         IN  parse_rows_any_length(rows, tr_num + 1,
                 [k \in Days |->
                     LET at == CHOOSE n \in 1..6 : TableKeys[n] = k
                     IN  IF at <= Len(data) THEN Append(r[k], data[at]) ELSE r[k]])

\* lines 236-274: the loop over the rows, from row tr_num on
RECURSIVE parse_rows(_, _, _)
parse_rows(rows, tr_num, r) ==
    IF tr_num > Len(rows) THEN [raised |-> FALSE, value |-> r]
    ELSE IF tr_num = 1 THEN parse_rows(rows, 2, r)
    ELSE LET data == row_data(rows[tr_num])
         IN  IF Len(data) # 6 THEN [raised |-> TRUE, value |-> EmptyDict]
             ELSE parse_rows(rows, tr_num + 1,
                      [k \in Days |->
                          LET at == CHOOSE n \in 1..6 : TableKeys[n] = k
                          IN  Append(r[k], data[at])])

\* DownloadPlan._get_table_from_soup: a page without a table raises
get_table_from_soup(obj) ==
    IF ~obj.has_table THEN [raised |-> TRUE, value |-> EmptyDict]
    ELSE parse_rows(obj.rows, 1, EmptyTable)

HourCells == {<<"9", ".", "4", "5">>, <<"1", "2", ":", "3", "0">>}

\* rows of 5, 6 and 7 cells
TableRows ==
    {[n \in 1..len |-> IF n = 1 THEN h ELSE <<"G">>] : len \in 5..7, h \in HourCells}

HeaderRow == [n \in 1..6 |-> <<"H">>]

RECURSIVE RowLists(_)
RowLists(n) ==
    IF n = 0 THEN {<<>>}
    ELSE RowLists(n - 1) \cup {Append(l, tr) : l \in {x \in RowLists(n - 1) : Len(x) = n - 1}, tr \in TableRows}

SubPages ==
    {[has_table |-> FALSE, rows |-> <<>>]} \cup
    {[has_table |-> TRUE, rows |-> <<HeaderRow>> \o l] : l \in RowLists(MaxRows)}

InitTable ==
    /\ num = 1
    /\ config = [send_email |-> FALSE, loop_time_in_seconds |-> 1]
    /\ clock = 1
    /\ world = {BaseSite}
    /\ site = BaseSite
    /\ dPlan = DPlanInit
    /\ dCancel = DCancelInit
    /\ cancel = EmptyDict
    /\ cancel_disk = TemplateCancel
    /\ faults = 0
    /\ ret = NoRet
    /\ mail = MailInit
    /\ pc = "plan_table"
    /\ plan = TemplatePlan
    /\ plan_disk = TemplatePlan
    /\ \E p \in SubPages : obs = [page |-> p, before |-> TemplatePlan]

\* Plan.is_table_changed on the sub page downloaded
CheckTable ==
    /\ pc = "plan_table"
    /\ LET f == get_table_from_soup(obs.page)
           changed == table_changed(plan, f.value, get_time)
       IN  IF f.raised
           THEN /\ ret' = [ret EXCEPT !.table = "raised"]
                /\ UNCHANGED <<plan, plan_disk>>
           ELSE IF f.value # plan.current
           THEN /\ plan' = changed
                /\ plan_disk' = Json_save_dict(plan_disk, changed, "ok")
                /\ ret' = [ret EXCEPT !.table = "True"]
           ELSE /\ ret' = [ret EXCEPT !.table = "False"]
                /\ UNCHANGED <<plan, plan_disk>>
    /\ pc' = "reset"
    /\ UNCHANGED <<obs, num, config, clock, world, site, dPlan, dCancel, cancel, cancel_disk,
                   faults, mail>>

\* the next cycle downloads the sub page again
NextSubPage ==
    /\ pc = "reset"
    /\ num < MaxPages
    /\ num' = num + 1
    /\ \E p \in SubPages : obs' = [page |-> p, before |-> plan]
    /\ ret' = NoRet
    /\ pc' = "plan_table"
    /\ UNCHANGED <<config, clock, world, site, dPlan, dCancel, plan, plan_disk, cancel,
                   cancel_disk, faults, mail>>

SpecTable == InitTable /\ [][CheckTable \/ NextSubPage]_vars

SameLengths(week) == \A k \in Days : Len(week[k]) = Len(week.time)

HasOtherThanSixCells(obj) ==
    obj.has_table /\ \E i \in 2..Len(obj.rows) : Len(obj.rows[i]) # 6

\* C26: in the plan snapshot, in memory and on disk, the six sequences of
\* current have one length, and so have those of previous; a fetched table
\* with a data row of other than 6 cells makes the check fail and leaves the
\* snapshot and the file as they were.
C26_WeekSequencesHaveOneLength ==
    /\ SameLengths(plan.current) /\ SameLengths(plan.previous)
    /\ SameLengths(plan_disk.current) /\ SameLengths(plan_disk.previous)
    /\ (pc = "reset" /\ HasOtherThanSixCells(obs.page)) =>
           (ret.table = "raised" /\ plan = obs.before /\ plan_disk = obs.before)

\* a two-row table was stored over a one-row table, then a table with a
\* seven-cell row was fetched and rejected
C26_Witness ==
    /\ pc = "reset"
    /\ num = 2
    /\ HasOtherThanSixCells(obs.page)
    /\ Len(obs.page.rows) = 3
    /\ Len(obs.page.rows[2]) = 6
    /\ Len(obs.page.rows[3]) = 7
    /\ ret.table = "raised"
    /\ Len(plan.current.time) = 2
    /\ plan.current.time[1] = <<"0", "9", ":", "4", "5">>
    /\ plan.previous = base_week

(* ---------------------- _Shared.get_user_agent ------------------------ *)
(* A user agent is the sequence of its characters; the empty sequence is  *)
(* the empty cache.                                                       *)

\* fragments a scraped user agent is made of
MaxPieces == 3

\* line 45: default_agent
default_agent ==
    <<"M", "o", "z", "i", "l", "l", "a", "/", "5", ".", "0", " ", "(", "W",
      "i", "n", "d", "o", "w", "s", " ", "N", "T", " ", "1", "0", ".", "0",
      ";", " ", "W", "i", "n", "6", "4", ";", " ", "x", "6", "4", ")", " ",
      "A", "p", "p", "l", "e", "W", "e", "b", "K", "i", "t", "/", "5", "3",
      "7", ".", "3", "6", " ", "(", "K", "H", "T", "M", "L", ",", " ", "l",
      "i", "k", "e", " ", "G", "e", "c", "k", "o", ")", " ", "C", "h", "r",
      "o", "m", "e", "/", "1", "0", "5", ".", "0", ".", "0", ".", "0", " ",
      "S", "a", "f", "a", "r", "i", "/", "5", "3", "7", ".", "3", "6">>

\* line 21: bypass_ua_fetch
bypass_ua_fetch == FALSE

UpperLetters == <<"A", "B", "C", "D", "E", "F", "G", "H", "I", "J", "K", "L", "M",
                  "N", "O", "P", "Q", "R", "S", "T", "U", "V", "W", "X", "Y", "Z">>
LowerLetters == <<"a", "b", "c", "d", "e", "f", "g", "h", "i", "j", "k", "l", "m",
                  "n", "o", "p", "q", "r", "s", "t", "u", "v", "w", "x", "y", "z">>

\* str.lower()
lower(s) ==
    [i \in 1..Len(s) |->
        IF \E n \in 1..26 : UpperLetters[n] = s[i]
        THEN LowerLetters[CHOOSE n \in 1..26 : UpperLetters[n] = s[i]]
        ELSE s[i]]

mozilla == <<"m", "o", "z", "i", "l", "l", "a">>
chrome == <<"c", "h", "r", "o", "m", "e">>

\* what the lookup gives when it is made: a failed request, a page without
\* the listing, or the text of the first listed agent
UaFragments ==
    {<<"M", "o", "z", "i", "l", "l", "a">>, <<"C", "H", "R", "O", "M", "E">>,
     <<"c", "h", "r", "o", "m", "e">>, <<"m", "o", "z">>, <<"i", "l", "l", "a">>,
     <<"/", "5">>}

RECURSIVE ScrapedAgents(_)
ScrapedAgents(n) ==
    IF n = 0 THEN {<<>>}
    ELSE ScrapedAgents(n - 1) \cup {a \o f : a \in ScrapedAgents(n - 1), f \in UaFragments}

UaLookups ==
    {[kind |-> "http_error", text |-> <<>>], [kind |-> "no_listing", text |-> <<>>]} \cup
    {[kind |-> "ok", text |-> a] : a \in ScrapedAgents(MaxPieces)}

\* variant that accepts an agent holding one of the two names
get_user_agent_either_name(ua, l) ==
    IF ua # <<>> THEN [ua |-> ua, requests |-> 0]
    ELSE IF bypass_ua_fetch THEN [ua |-> default_agent, requests |-> 0]
    ELSE IF l.kind # "ok" THEN [ua |-> default_agent, requests |-> 1]
    ELSE IF Len(l.text) < 5 THEN [ua |-> default_agent, requests |-> 1]
    ELSE IF \A name \in {mozilla, chrome} : ~Contains(lower(l.text), name)
    THEN [ua |-> default_agent, requests |-> 1]
    ELSE [ua |-> l.text, requests |-> 1]

\* variant that looks the agent up on every call
get_user_agent_uncached(ua, l) ==
    IF l.kind # "ok" THEN [ua |-> default_agent, requests |-> 1]
    ELSE IF Len(l.text) < 5 THEN [ua |-> default_agent, requests |-> 1]
    ELSE IF \E name \in {mozilla, chrome} : ~Contains(lower(l.text), name)
    THEN [ua |-> default_agent, requests |-> 1]
    ELSE [ua |-> l.text, requests |-> 1]

\* _Shared.get_user_agent: the cache after the call, which is the value
\* returned, and the requests made
get_user_agent(ua, l) ==
    IF ua # <<>> THEN [ua |-> ua, requests |-> 0]
    ELSE IF bypass_ua_fetch THEN [ua |-> default_agent, requests |-> 0]
    ELSE IF l.kind # "ok" THEN [ua |-> default_agent, requests |-> 1]
    ELSE IF Len(l.text) < 5 THEN [ua |-> default_agent, requests |-> 1]
    ELSE IF \E name \in {mozilla, chrome} : ~Contains(lower(l.text), name)
    THEN [ua |-> default_agent, requests |-> 1]
    ELSE [ua |-> l.text, requests |-> 1]

NoLookup == [kind |-> "none", text |-> <<>>]

\* what a call can meet, given the cache: with an agent cached no request is
\* made and nothing is looked up
LookupsWith(ua) == IF ua = <<>> THEN UaLookups ELSE {NoLookup}

\* obs.ua is _Shared._ua, obs.lookups the requests get_user_agent has made,
\* obs.scraped what its request gave, obs.returned the value last returned
InitUserAgent ==
    /\ pc = "plan"
    /\ num = 1
    /\ config = [send_email |-> FALSE, loop_time_in_seconds |-> 1]
    /\ clock = 1
    /\ world = {BaseSite}
    /\ site = BaseSite
    /\ dPlan = DPlanInit
    /\ dCancel = DCancelInit
    /\ plan = EmptyDict
    /\ plan_disk = TemplatePlan
    /\ cancel = EmptyDict
    /\ cancel_disk = TemplateCancel
    /\ faults = 0
    /\ ret = NoRet
    /\ mail = MailInit
    /\ obs = [ua |-> <<>>, lookups |-> 0, scraped |-> NoLookup, returned |-> <<>>]

\* the call of get_user_agent in a download
CallGetUserAgent(l) ==
    LET r == get_user_agent(obs.ua, l)
    IN  obs' = [ua |-> r.ua,
                lookups |-> obs.lookups + r.requests,
                scraped |-> IF r.requests = 1 THEN l ELSE obs.scraped,
                returned |-> r.ua]

\* DownloadPlan._download_pages, line 297 and the two downloads
DownloadPlanPages ==
    /\ pc = "plan"
    /\ \E l \in LookupsWith(obs.ua) : CallGetUserAgent(l)
    /\ dPlan' = download_pages(dPlan, site, "ok").d
    /\ pc' = "cancel"
    /\ UNCHANGED <<num, config, clock, world, site, dCancel, plan, plan_disk, cancel,
                   cancel_disk, faults, ret, mail>>

\* DownloadCancel._download_page, line 455 and the download
DownloadCancelPage ==
    /\ pc = "cancel"
    /\ \E l \in LookupsWith(obs.ua) : CallGetUserAgent(l)
    /\ dCancel' = [dCancel EXCEPT !.page = [items |-> site.cancellations]]
    /\ pc' = "reset"
    /\ UNCHANGED <<num, config, clock, world, site, dPlan, plan, plan_disk, cancel,
                   cancel_disk, faults, ret, mail>>

\* App.run lines 190-191: the purge between two cycles
ResetFetchers ==
    /\ pc = "reset"
    /\ num < MaxCycles
    /\ num' = num + 1
    /\ dPlan' = DPlanInit
    /\ dCancel' = DCancelInit
    /\ pc' = "plan"
    /\ UNCHANGED <<obs, config, clock, world, site, plan, plan_disk, cancel, cancel_disk,
                   faults, ret, mail>>

SpecUserAgent ==
    InitUserAgent /\ [][DownloadPlanPages \/ DownloadCancelPage \/ ResetFetchers]_vars

HasName(text, name) == Contains(lower(text), name)

\* C27, as the code has it: the scraped agent is replaced by the default
\* exactly when it is shorter than 5 characters or lacks "mozilla" or lacks
\* "chrome", whatever the case of its letters; an agent of 5 characters or
\* more that holds both names is cached as it was scraped.
C27_AgentNeedsBothNames ==
    (obs.lookups = 1 /\ obs.scraped.kind = "ok") =>
        obs.ua = IF \/ Len(obs.scraped.text) < 5
                    \/ ~HasName(obs.scraped.text, mozilla)
                    \/ ~HasName(obs.scraped.text, chrome)
                 THEN default_agent
                 ELSE obs.scraped.text

\* C27, as stated: the scraped agent is replaced by the default exactly when
\* it is shorter than 5 characters or holds neither name.
C27_AgentNeedsOneName ==
    (obs.lookups = 1 /\ obs.scraped.kind = "ok") =>
        obs.ua = IF \/ Len(obs.scraped.text) < 5
                    \/ (~HasName(obs.scraped.text, mozilla) /\ ~HasName(obs.scraped.text, chrome))
                 THEN default_agent
                 ELSE obs.scraped.text

\* an agent of 8 characters that holds "chrome" and not "mozilla" was scraped
\* and the default was cached
C27_Witness ==
    /\ obs.lookups = 1
    /\ obs.scraped = [kind |-> "ok", text |-> <<"C", "H", "R", "O", "M", "E", "/", "5">>]
    /\ obs.ua = default_agent

\* C28: get_user_agent makes at most one request; once the cache holds an
\* agent, which is after the first call whether the lookup succeeded or not,
\* every step, a call from either fetcher or a purge, leaves the cache and
\* the count of requests as they were, and a call returns the cached agent.
C28_AgentLookedUpOnce ==
    /\ [](obs.lookups <= 1 /\ (pc # "plan" \/ num > 1 => obs.ua # <<>>))
    /\ [][obs.ua # <<>> =>
            /\ obs'.ua = obs.ua
            /\ obs'.lookups = obs.lookups
            /\ obs'.scraped = obs.scraped
            /\ obs'.returned = obs.ua]_vars

\* the second cycle's plan download got the default that the failed lookup of
\* the first cycle had cached
C28_Witness ==
    /\ num = 2
    /\ pc = "cancel"
    /\ dPlan.main_page # None
    /\ obs.lookups = 1
    /\ obs.scraped.kind = "http_error"
    /\ obs.returned = default_agent

(* ------------- DownloadCancel._get_cancellations_from_soup ------------ *)
(* The page is the list of its "views-row" items; an item has a link or   *)
(* not, the link's text, and the texts of its spans, the second of which  *)
(* is the date. A title is the sequence of its characters.                *)

\* items of a fetched cancellations page
MaxItems == 2

\* str.rstrip(".")
RECURSIVE rstrip_dots(_)
rstrip_dots(s) ==
    IF s # <<>> /\ s[Len(s)] = "." THEN rstrip_dots(SubSeq(s, 1, Len(s) - 1)) ELSE s

\* lines 497-498: the title and the date of an item, or the exception
item_texts(li) ==
    IF ~li.has_a \/ Len(li.spans) < 2
    THEN [raised |-> TRUE, title |-> <<>>, date |-> 0]
    ELSE [raised |-> FALSE, title |-> rstrip_dots(li.a_text), date |-> li.spans[2]]

\* variant of the loop that lets an item's exception end the extraction
RECURSIVE parse_items_all_or_nothing(_, _, _)
parse_items_all_or_nothing(lis, i, r) ==
    IF i > Len(lis) THEN [raised |-> FALSE, value |-> r]
    ELSE LET t == item_texts(lis[i])
         IN  IF t.raised THEN [raised |-> TRUE, value |-> EmptyDict]
             ELSE parse_items_all_or_nothing(lis, i + 1, DictUpdate(r, t.date, t.title))

\* lines 495-507: the loop over the items, from item i on
RECURSIVE parse_items(_, _, _)
parse_items(lis, i, r) ==
    IF i > Len(lis) THEN [raised |-> FALSE, value |-> r]
    ELSE LET t == item_texts(lis[i])
         IN  IF t.raised THEN parse_items(lis, i + 1, r)
             ELSE parse_items(lis, i + 1, DictUpdate(r, t.date, t.title))

\* DownloadCancel._get_cancellations_from_soup: a page without the content
\* block raises
get_cancellations_from_soup(page) ==
    IF ~page.has_content THEN [raised |-> TRUE, value |-> EmptyDict]
    ELSE parse_items(page.items, 1, EmptyDict)

ListItems ==
    [has_a : BOOLEAN,
     a_text : {<<"A">>, <<"B", ".", ".">>},
     spans : {<<"by">>, <<"by", 101>>, <<"by", 102>>}]

RECURSIVE ItemLists(_)
ItemLists(n) ==
    IF n = 0 THEN {<<>>}
    ELSE ItemLists(n - 1) \cup
         {Append(l, li) : l \in {x \in ItemLists(n - 1) : Len(x) = n - 1}, li \in ListItems}

CancelPages ==
    {[has_content |-> FALSE, items |-> <<>>]} \cup
    {[has_content |-> TRUE, items |-> l] : l \in ItemLists(MaxItems)}

\* a cancellations document of an earlier run
StoredCancelMap ==
    [TemplateCancel EXCEPT
        !.current = [d \in {101} |-> <<"A">>],
        !.previous = TemplateCancel.current,
        !.metadata.current_iteration = 1]

InitCancelPage ==
    /\ pc = "get_cancel"
    /\ num = 1
    /\ config = [send_email |-> FALSE, loop_time_in_seconds |-> 1]
    /\ clock \in 1..MaxClock
    /\ world = {BaseSite}
    /\ site = BaseSite
    /\ dPlan = DPlanInit
    /\ dCancel = DCancelInit
    /\ plan = EmptyDict
    /\ plan_disk = TemplatePlan
    /\ \E doc \in {TemplateCancel, StoredCancelMap} :
         /\ cancel = doc
         /\ cancel_disk = doc
         /\ \E p \in CancelPages : obs = [page |-> p, before |-> doc]
    /\ faults = 0
    /\ ret = NoRet
    /\ mail = MailInit

\* Cancel.is_cancellations_changed on the page downloaded
CheckCancelPage ==
    /\ pc = "get_cancel"
    /\ LET f == get_cancellations_from_soup(obs.page)
           changed == cancellations_changed(cancel, f.value, get_time)
       IN  IF f.raised
           THEN /\ ret' = [ret EXCEPT !.cancel = "raised"]
                /\ UNCHANGED <<cancel, cancel_disk>>
           ELSE IF f.value # cancel.current
           THEN /\ cancel' = changed
                /\ cancel_disk' = Json_save_dict(cancel_disk, changed, "ok")
                /\ ret' = [ret EXCEPT !.cancel = "True"]
           ELSE /\ ret' = [ret EXCEPT !.cancel = "False"]
                /\ UNCHANGED <<cancel, cancel_disk>>
    /\ pc' = "end_cycle"
    /\ UNCHANGED <<obs, num, config, clock, world, site, dPlan, dCancel, plan, plan_disk,
                   faults, mail>>

SpecCancelPage == InitCancelPage /\ [][CheckCancelPage]_vars

Parsable(li) == li.has_a /\ Len(li.spans) >= 2

\* the map of the parsable items alone: each date with the title of the last
\* parsable item that carries it
MapOfParsable(lis) ==
    LET ps == SelectSeq(lis, Parsable)
    IN  [d \in {ps[i].spans[2] : i \in DOMAIN ps} |->
            LET last == CHOOSE i \in DOMAIN ps :
                            /\ ps[i].spans[2] = d
                            /\ \A j \in DOMAIN ps : j > i => ps[j].spans[2] # d
            IN  rstrip_dots(ps[last].a_text)]

\* C29: on a page that has its content block, items without a link or with
\* fewer than two spans do not fail the check; the check ends with the map of
\* the parsable items alone as the current map.
C29_UnparsableItemsSkipped ==
    (pc = "end_cycle" /\ obs.page.has_content) =>
        /\ ret.cancel \in {"True", "False"}
        /\ cancel.current = MapOfParsable(obs.page.items)
        /\ (ret.cancel = "False" <=> obs.before.current = MapOfParsable(obs.page.items))

\* an item without a link came before a parsable one, whose entry was stored
C29_Witness ==
    /\ pc = "end_cycle"
    /\ Len(obs.page.items) = 2
    /\ ~obs.page.items[1].has_a
    /\ Parsable(obs.page.items[2])
    /\ ret.cancel = "True"
    /\ cancel.current = [d \in {102} |-> <<"B">>]
    /\ cancel_disk = cancel

(* ------------------ DownloadPlan._get_color_from_soup ----------------- *)
(* The text of the style block is the sequence of its characters.         *)

\* declarations of a style block
MaxDeclarations == 2

\* line 167: the pattern before its group
color_pattern == <<"b", "a", "c", "k", "g", "r", "o", "u", "n", "d", "-", "c", "o", "l", "o", "r", ":", "#">>

\* line 167: re.search("background-color:#(.{6});", style, re.IGNORECASE)
\* matches at position i
MatchesAt(style, i) ==
    LET n == Len(color_pattern)
    IN  /\ i + n + 6 <= Len(style)
        /\ lower(SubSeq(style, i, i + n - 1)) = color_pattern
        /\ \A k \in (i + n)..(i + n + 5) : style[k] # "\n"
        /\ style[i + n + 6] = ";"

\* DownloadPlan._get_color_from_soup: group 1 of the leftmost match; a page
\* without a style block, or a block without a match, raises
get_color_from_soup(obj) ==
    IF ~obj.has_style THEN [raised |-> TRUE, value |-> <<>>]
    ELSE IF \A i \in 1..Len(obj.style) : ~MatchesAt(obj.style, i)
    THEN [raised |-> TRUE, value |-> <<>>]
    ELSE LET i == CHOOSE m \in 1..Len(obj.style) :
                      MatchesAt(obj.style, m) /\ \A j \in 1..(m - 1) : ~MatchesAt(obj.style, j)
             n == Len(color_pattern)
         IN  [raised |-> FALSE, value |-> SubSeq(obj.style, i + n, i + n + 5)]

\* declarations a style block is made of: a property, "#" and a value, and
\* what ends the declaration
StyleProperties ==
    {<<"b", "a", "c", "k", "g", "r", "o", "u", "n", "d", "-", "c", "o", "l", "o", "r", ":", "#">>,
     <<"B", "a", "c", "k", "g", "r", "o", "u", "n", "d", "-", "C", "o", "l", "o", "r", ":", "#">>}

StyleValues ==
    {<<"c", "d", "6", "1", "b", "8">>, <<"G", "G", "G", "G", "G", "G">>, <<"f", "f", "f">>}

StyleEnds == {<<";">>, <<"}">>}

Declarations == {p \o v \o e : p \in StyleProperties, v \in StyleValues, e \in StyleEnds}

RECURSIVE StyleTexts(_)
StyleTexts(n) ==
    IF n = 0 THEN {<<>>}
    ELSE StyleTexts(n - 1) \cup {s \o d : s \in StyleTexts(n - 1), d \in Declarations}

MainPages ==
    {[has_style |-> FALSE, style |-> <<>>]} \cup
    {[has_style |-> TRUE, style |-> s] : s \in StyleTexts(MaxDeclarations)}

\* obs.page is the main page downloaded, obs.color the color extracted
InitColorPage ==
    /\ pc = "plan_color"
    /\ num = 1
    /\ config = [send_email |-> FALSE, loop_time_in_seconds |-> 1]
    /\ clock = 1
    /\ world = {BaseSite}
    /\ site = BaseSite
    /\ dPlan = DPlanInit
    /\ dCancel = DCancelInit
    /\ plan = EmptyDict
    /\ plan_disk = TemplatePlan
    /\ cancel = EmptyDict
    /\ cancel_disk = TemplateCancel
    /\ faults = 0
    /\ ret = NoRet
    /\ mail = MailInit
    /\ \E p \in MainPages : obs = [page |-> p, color |-> <<>>]

\* DownloadPlan.color, line 344, on the main page downloaded
ExtractColor ==
    /\ pc = "plan_color"
    /\ LET f == get_color_from_soup(obs.page)
       IN  /\ obs' = [obs EXCEPT !.color = f.value]
           /\ ret' = [ret EXCEPT !.color = IF f.raised THEN "raised" ELSE "returned"]
    /\ pc' = "done"
    /\ UNCHANGED <<num, config, clock, world, site, dPlan, dCancel, plan, plan_disk, cancel,
                   cancel_disk, faults, mail>>

SpecColorPage == InitColorPage /\ [][ExtractColor]_vars

HexDigits ==
    {"0", "1", "2", "3", "4", "5", "6", "7", "8", "9",
     "a", "b", "c", "d", "e", "f", "A", "B", "C", "D", "E", "F"}

IsSixHexDigits(s) == Len(s) = 6 /\ \A k \in 1..6 : s[k] \in HexDigits

\* the style block holds "background-color:#", in any case, and 6 hex digits
\* after it
HasHexColor(obj) ==
    /\ obj.has_style
    /\ \E i \in 1..Len(obj.style) :
         LET n == Len(color_pattern)
         IN  /\ i + n + 5 <= Len(obj.style)
             /\ lower(SubSeq(obj.style, i, i + n - 1)) = color_pattern
             /\ IsSixHexDigits(SubSeq(obj.style, i + n, i + n + 5))

\* C30: the extraction returns 6 hex digits whenever the style block holds
\* "background-color:#" and 6 hex digits, fails whenever it holds no such
\* pattern, and never returns a value that is not hexadecimal.
C30_ColorIsSixHexDigits ==
    pc = "done" =>
        /\ (HasHexColor(obs.page) => ret.color = "returned")
        /\ (~HasHexColor(obs.page) => ret.color = "raised")
        /\ (ret.color = "returned" => IsSixHexDigits(obs.color))

\* what the pattern of line 167 gives: the six characters between
\* "background-color:#" and a semicolon are returned whatever they are
C30_AnySixCharactersBeforeSemicolon ==
    pc = "done" =>
        /\ ret.color = "returned" <=>
              (obs.page.has_style /\ \E i \in 1..Len(obs.page.style) : MatchesAt(obs.page.style, i))
        /\ (ret.color = "returned" => Len(obs.color) = 6)

\* C31: after every check the snapshot in memory is the snapshot last
\* written to its file: a change whose write failed is not kept in memory.
C31_MemoryIsLastPersisted ==
    /\ (plan # EmptyDict /\ DOMAIN plan_disk = DOMAIN TemplatePlan) => plan = plan_disk
    /\ (cancel # EmptyDict /\ DOMAIN cancel_disk = DOMAIN TemplateCancel) => cancel = cancel_disk

\* as long as no fetch and no write has failed, memory and file agree
C31_MemoryIsFileWithoutFailure ==
    faults = 0 => C31_MemoryIsLastPersisted

\* the messages about the cancellations that carry the counter of the
\* snapshot in their subject
CancelMessagesOfChange ==
    {i \in DOMAIN mail.outbox :
        mail.outbox[i].kind = "cancel" /\ mail.outbox[i].subject = cancel.metadata.current_iteration}

\* C32: with send_email set, a cycle whose cancellation check accepted a
\* change ends with exactly one message for that change handed to
\* send_mail_api.
C32_OneNotifyPerCancelChange ==
    (pc = "end_cycle" /\ config.send_email /\ ret.cancel = "True") =>
        Cardinality(CancelMessagesOfChange) = 1

\* Mail.send_cancel_email called on a changed snapshot hands one message to
\* send_mail_api, also when the change removes entries or alters a title
C32_SendCancelEmailAlwaysNotifies ==
    pc = "done" => Cardinality(CancelMessagesOfChange) = 1

\* C33: every e-mail handed to the server carries the subject of the call
\* and, as its content, the message followed by the footer once, wherever
\* its receiver stands in email_receivers.
C33_SameBodyForEveryReceiver ==
    \A i \in DOMAIN mail.outbox :
        /\ mail.outbox[i].Subject = obs.subject
        /\ mail.outbox[i].content = Append(obs.message, footer)

\* what the loop does: the e-mail of the receiver at position i carries the
\* footer i times
C33_FooterOncePerPosition ==
    \A i \in DOMAIN mail.outbox :
        /\ mail.outbox[i].Subject = obs.subject
        /\ mail.outbox[i].To = obs.secret.email_receivers[i]
        /\ mail.outbox[i].content = obs.message \o [k \in 1..i |-> footer]

(* ------------------ FileManager.__init__ / App.__init__ ---------------- *)
(* The four document files at start-up. obs.present names the files that   *)
(* exist, obs.before what they hold; config is FileManager._config,        *)
(* obs.secret FileManager._secret, obs.config_disk and obs.secret_disk the *)
(* two files of ./config/.                                                 *)

\* _templates.config
TemplateConfig ==
    [TARGET |-> [group_pattern |-> "^1.*LMT"],
     URL |-> [cancel |-> "https://wa.amu.edu.pl/wa/Nieobecnosci_WA/",
              plan_base |-> "https://wa.amu.edu.pl/timetables/",
              plan |-> "https://wa.amu.edu.pl/timetables/zima_2022_2023/groups/index.html"],
     RUNTIME |-> [loop_time_in_seconds |-> 0,
                  send_email_plan |-> TRUE,
                  send_email_cancel |-> TRUE]]

\* a user.json that its user has edited: the interval is set and the key
\* that App.__init__ reads is there
UserConfig ==
    [TemplateConfig EXCEPT
        !.RUNTIME = [loop_time_in_seconds |-> 3600, send_email |-> TRUE]]

UserSecret == [TemplateSecret EXCEPT !.email_sender.username = "me@mail.com"]

FileNames == {"config", "secret", "plan", "cancel"}

TemplateOf(f) ==
    CASE f = "config" -> TemplateConfig
      [] f = "secret" -> TemplateSecret
      [] f = "plan" -> TemplatePlan
      [] OTHER -> TemplateCancel

\* what an existing file can hold
FilesOf(f) ==
    CASE f = "config" -> {TemplateConfig, UserConfig, Without(UserConfig, "URL")}
      [] f = "secret" -> {TemplateSecret, UserSecret, Without(UserSecret, "email_receivers")}
      [] f = "plan" -> {TemplatePlan, StoredPlan, Without(StoredPlan, "previous"),
                        [StoredPlan EXCEPT !.metadata = Without(@, "current_color")]}
      [] OTHER -> {TemplateCancel, StoredCancel, Without(StoredCancel, "previous")}

\* the process is started, with --reset or without; a file that does not
\* exist holds nothing
InitStart ==
    /\ pc = "file_manager"
    /\ \E present \in SUBSET FileNames, reset \in BOOLEAN :
       \E c \in FilesOf("config"), s \in FilesOf("secret"),
          p \in FilesOf("plan"), l \in FilesOf("cancel") :
         LET before == [config |-> IF "config" \in present THEN c ELSE EmptyDict,
                        secret |-> IF "secret" \in present THEN s ELSE EmptyDict,
                        plan |-> IF "plan" \in present THEN p ELSE EmptyDict,
                        cancel |-> IF "cancel" \in present THEN l ELSE EmptyDict]
         IN  /\ obs = [present |-> present, reset |-> reset, before |-> before,
                       config_disk |-> before.config, secret_disk |-> before.secret,
                       secret |-> EmptyDict, first_run |-> FALSE, email_enabled |-> FALSE]
             /\ plan_disk = before.plan
             /\ cancel_disk = before.cancel
    /\ config = EmptyDict
    /\ plan = EmptyDict
    /\ cancel = EmptyDict
    /\ num = 0
    /\ clock = 1
    /\ world = {BaseSite}
    /\ site = BaseSite
    /\ dPlan = DPlanInit
    /\ dCancel = DCancelInit
    /\ faults = 0
    /\ ret = NoRet
    /\ mail = MailInit

\* FileManager.__init__: with reset the directories are removed; missing
\* directories and files are created, and if one was created all four
\* documents are loaded by LoadByType, else nothing is cached
FileManagerInit ==
    /\ pc = "file_manager"
    /\ LET first_run == obs.reset \/ obs.present # FileNames
           on_disk(doc) == IF obs.reset THEN EmptyDict ELSE doc
       IN  \E wc \in LoadWrites(EmptyDict, on_disk(obs.config_disk), TemplateConfig),
              ws \in LoadWrites(EmptyDict, on_disk(obs.secret_disk), TemplateSecret),
              wp \in LoadWrites(EmptyDict, on_disk(plan_disk), TemplatePlan),
              wl \in LoadWrites(EmptyDict, on_disk(cancel_disk), TemplateCancel) :
             LET failed == Cardinality({n \in 1..4 : <<wc, ws, wp, wl>>[n] # "ok"})
                 c == LoadByType(on_disk(obs.config_disk), TemplateConfig, wc)
                 s == LoadByType(on_disk(obs.secret_disk), TemplateSecret, ws)
                 p == LoadByType(on_disk(plan_disk), TemplatePlan, wp)
                 l == LoadByType(on_disk(cancel_disk), TemplateCancel, wl)
             IN  /\ failed <= MaxFaults
                 /\ first_run \/ failed = 0
                 /\ faults' = failed
                 /\ IF first_run
                    THEN /\ config' = c.doc
                         /\ plan' = p.doc
                         /\ cancel' = l.doc
                         /\ plan_disk' = p.disk
                         /\ cancel_disk' = l.disk
                         /\ obs' = [obs EXCEPT !.first_run = TRUE,
                                               !.config_disk = c.disk,
                                               !.secret_disk = s.disk,
                                               !.secret = s.doc]
                    ELSE /\ config' = EmptyDict
                         /\ plan' = EmptyDict
                         /\ cancel' = EmptyDict
                         /\ UNCHANGED <<plan_disk, cancel_disk, obs>>
    /\ pc' = "app_init"
    /\ UNCHANGED <<num, clock, world, site, dPlan, dCancel, ret, mail>>

\* App.__init__ line 48: config["RUNTIME"]["send_email"] through the getter
\* of FileManager.config; a missing key raises KeyError, which nothing catches
AppInit ==
    /\ pc = "app_init"
    /\ \E w \in LoadWrites(config, obs.config_disk, TemplateConfig) :
         LET g == FileGet(config, obs.config_disk, TemplateConfig, w)
         IN  /\ (w # "ok") => faults < MaxFaults
             /\ faults' = IF w = "ok" THEN faults ELSE faults + 1
             /\ config' = g.doc
             /\ IF "send_email" \in DOMAIN g.doc.RUNTIME
                THEN /\ obs' = [obs EXCEPT !.config_disk = g.disk,
                                           !.email_enabled = g.doc.RUNTIME.send_email]
                     /\ pc' = "run"
                ELSE /\ obs' = [obs EXCEPT !.config_disk = g.disk]
                     /\ pc' = "raised"
    /\ UNCHANGED <<num, clock, world, site, dPlan, dCancel, plan, plan_disk, cancel,
                   cancel_disk, ret, mail>>

SpecStart == InitStart /\ [][FileManagerInit \/ AppInit]_vars

\* no document file exists, or the program was started with --reset
FactoryDefaults == obs.reset \/ obs.present = {}

\* C34: on a first run with factory-default documents, the construction of
\* App completes, with the placeholder config whose interval is 0.
C34_FirstRunConstructsApp ==
    (FactoryDefaults /\ pc \notin {"file_manager", "app_init"}) =>
        /\ pc = "run"
        /\ config = TemplateConfig
        /\ config.RUNTIME.loop_time_in_seconds = 0

\* the construction completes for a config that holds RUNTIME.send_email, and
\* for no other
C34_ConstructsWithSendEmailKey ==
    pc \notin {"file_manager", "app_init"} =>
        (pc = "run" <=> "send_email" \in DOMAIN config.RUNTIME)

\* FileManager.__init__ has returned, in a start without --reset where some
\* of the four files existed and some did not
PartialStart ==
    /\ pc # "file_manager"
    /\ ~obs.reset
    /\ obs.present # {}
    /\ obs.present # FileNames

\* a document of the start that existed with the keys of its placeholder is
\* cached and stored as it was; any other is cached as the placeholder, which
\* is what its file holds unless the write failed
KeptOrDefault(f, cache, disk) ==
    IF f \in obs.present /\ DOMAIN obs.before[f] = DOMAIN TemplateOf(f)
    THEN /\ cache = obs.before[f]
         /\ disk = obs.before[f]
    ELSE /\ cache = TemplateOf(f)
         /\ disk \in {TemplateOf(f), obs.before[f], EmptyDict}
         /\ faults = 0 => disk = TemplateOf(f)

\* C36: at a start where some but not all documents are missing, only the
\* missing or invalid documents are created with defaults; every existing
\* document with the expected keys is loaded unchanged and keeps its content.
C36_OnlyMissingDocumentsCreated ==
    PartialStart =>
        /\ KeptOrDefault("config", config, obs.config_disk)
        /\ KeptOrDefault("secret", obs.secret, obs.secret_disk)
        /\ KeptOrDefault("plan", plan, plan_disk)
        /\ KeptOrDefault("cancel", cancel, cancel_disk)

C36_Witness ==
    /\ PartialStart
    /\ obs.present = {"plan", "secret"}
    /\ obs.before.plan = StoredPlan
    /\ plan = StoredPlan
    /\ plan_disk = StoredPlan
    /\ obs.before.secret = Without(UserSecret, "email_receivers")
    /\ obs.secret = TemplateSecret
    /\ config = TemplateConfig
    /\ obs.config_disk = TemplateConfig
    /\ cancel_disk = TemplateCancel

\* the check returned True or False
Returned(r) == r \in {"True", "False"}

\* C35: with notifications disabled every check still runs (a plan check is
\* left out only after a plan check that raised), each detected change is in
\* the snapshot and in its file, and no notification is attempted or sent.
C35_DisabledStillChecksAndStores ==
    ~config.send_email =>
        /\ pc \notin {"mail_plan", "mail_cancel"}
        /\ ret.mail_plan = "-" /\ ret.mail_cancel = "-"
        /\ mail.outbox = <<>>
        /\ pc \in {"plan_table", "get_cancel", "end_cycle"} =>
             /\ ret.color # "-"
             /\ (Returned(ret.color) => ret.link # "-")
        /\ pc \in {"get_cancel", "end_cycle"} =>
             ((Returned(ret.color) /\ Returned(ret.link)) => ret.table # "-")
        /\ pc = "end_cycle" => ret.cancel # "-"
        /\ (pc = "plan_link" /\ ret.color = "True") =>
             /\ plan.metadata.current_color \in obs.cur.color
             /\ plan_disk = plan
        /\ (pc = "plan_table" /\ ret.link = "True") =>
             /\ plan.metadata.current_link \in obs.cur.link
             /\ plan_disk = plan
        /\ (pc = "get_cancel" /\ ret.table = "True") =>
             /\ plan.current \in obs.cur.table
             /\ plan_disk = plan
        /\ (pc = "end_cycle" /\ ret.cancel = "True") =>
             /\ cancel.current \in obs.cur.cancel
             /\ cancel_disk = cancel

C35_Witness ==
    /\ ~config.send_email
    /\ pc = "end_cycle"
    /\ ret.color = "True"
    /\ ret.link = "True"
    /\ ret.table = "True"
    /\ ret.cancel = "True"
    /\ plan_disk = plan
    /\ plan.metadata.current_iteration >= 3
    /\ cancel_disk = cancel
    /\ mail.outbox = <<>>

\* metadata.current_link of a plan document, when the document has one
LinkIsNullOrUrl(doc) ==
    ("metadata" \in DOMAIN doc /\ "current_link" \in DOMAIN doc.metadata) =>
        /\ doc.metadata.current_link # ""
        /\ doc.metadata.current_link \in {"null"} \cup Links

\* C37: in every plan snapshot, in memory and on disk, metadata.current_link
\* is "null" or a non-empty resolved URL: a cycle starts with no cached main
\* page, and the link check is reached only with a non-empty cached link, so
\* it never returns the empty link of a download that stopped half-way.
C37_LinkNeverEmpty ==
    /\ LinkIsNullOrUrl(plan)
    /\ LinkIsNullOrUrl(plan_disk)
    /\ pc = "run" => (dPlan.main_page = None /\ dPlan.sub_link = "")
    /\ pc \in {"plan_link", "plan_table"} => dPlan.sub_link \in Links

\* a link was accepted in the cycle after one whose first fetch raised
C37_Witness ==
    /\ num >= 2
    /\ "color" \in obs.failed
    /\ pc = "plan_table"
    /\ ret.link = "True"
    /\ plan.metadata.current_link \in Links
    /\ plan_disk = plan

\* the cycle ended with the main page cached and no link found
C37_HalfDownloadedCycle ==
    /\ pc = "reset"
    /\ dPlan.main_page # None
    /\ dPlan.sub_link = ""
    /\ ret.color = "raised"
====
